---- MODULE Spec2Model ----
(***************************************************************************)
(* State-machine model of the MarkLogic connector in src/lib/ml.js.         *)
(*                                                                         *)
(* The file holds two generations of the connector one after the other;    *)
(* every prototype method is assigned twice and the later assignment       *)
(* (lines 449-1330) is the one in effect, so that is what is modelled.     *)
(*                                                                         *)
(* A public operation is split at its one suspension point: the action     *)
(* named after the method runs the code up to the store request issued     *)
(* through execute(), and the action <method>_callback runs the store's    *)
(* completion together with the handler passed to execute().               *)
(***************************************************************************)
EXTENDS Integers, Sequences, FiniteSets, TLC

VARIABLES idName, allowExtendedOperators, db, store, pc, call, data, req,
          nreq, resp, cb, thrown, prev, parsed, filter, cursor, ret,
          dataSource

vars == <<idName, allowExtendedOperators, db, store, pc, call, data, req,
          nreq, resp, cb, thrown, prev, parsed, filter, cursor, ret,
          dataSource>>

(***************************************************************************)
(* Bounds of the model.                                                    *)
(***************************************************************************)
\* number of distinct locators the store can hand out
NUris == 2
\* number of distinct values of the payload field "name"
NVals == 1

(***************************************************************************)
(* JavaScript values.  Every value is a pair <<tag, n>> so that any two    *)
(* values can be compared.  Absent is "the key is not in the object";      *)
(* Undefined is a key that is present and holds undefined.                 *)
(***************************************************************************)
Absent == <<"absent", 0>>
Undefined == <<"undefined", 0>>
Null == <<"null", 0>>
Zero == <<"num", 0>>
Uri(i) == <<"uri", i>>
Str(i) == <<"str", i>>
\* a nested plain object {name: Str(i)}
Sub(i) == <<"obj", i>>

Uris == {Uri(i) : i \in 1..NUris}
Vals == {Str(i) : i \in 1..NVals}
Subs == {Sub(i) : i \in 1..NVals}

\* JavaScript truthiness of a value
Truthy(v) == v[1] \in {"uri", "str", "obj"} \/ (v[1] = "num" /\ v[2] # 0)

Fields == {"_uri", "id", "name"}

\* src/lib/ml.js:735-742, in the order of the source
acceptedOperators ==
  << "$currentDate", "$inc", "$max", "$min", "$mul", "$rename",
     "$setOnInsert", "$set", "$unset",
     "$addToSet", "$pop", "$pullAll", "$pull", "$pushAll", "$push",
     "$bit" >>

AcceptedSet == {acceptedOperators[i] : i \in 1..Len(acceptedOperators)}

\* "$where" stands for an operator-looking key that is not on the allow-list
Keys == Fields \cup AcceptedSet \cup {"$where"}

\* A JavaScript object: each key holds a value or is Absent
EmptyObj == [k \in Keys |-> Absent]
Get(o, k) == IF o[k] = Absent THEN Undefined ELSE o[k]
Set(o, k, v) == [o EXCEPT ![k] = v]
Delete(o, k) == [o EXCEPT ![k] = Absent]
OwnKeys(o) == {k \in Keys : o[k] # Absent}

\* An object-or-null-or-undefined reference
JSObj(o) == [tag |-> "obj", o |-> o]
JSNull == [tag |-> "null", o |-> EmptyObj]
JSUndef == [tag |-> "undefined", o |-> EmptyObj]

(***************************************************************************)
(* Errors.                                                                 *)
(***************************************************************************)
NoErr == [kind |-> "none", name |-> "", model |-> "", uri |-> Absent]
StoreErr(n) == [kind |-> "store", name |-> n, model |-> "", uri |-> Absent]
\* the errors the store may complete a request with
StoreErrors == {StoreErr("ECONNRESET"), StoreErr("EWRITE")}
\* 'No ' + model + ' found for uri ' + uri
NotFoundMsg(model, uri) ==
  [kind |-> "message", name |-> "No <model> found for uri <uri>",
   model |-> model, uri |-> uri]

Model == "Widget"

(***************************************************************************)
(* Callback arguments.                                                     *)
(***************************************************************************)
Arg(tag, o, v, list, n) == [tag |-> tag, o |-> o, v |-> v, list |-> list, n |-> n]
\* argument not passed
ANone == Arg("none", EmptyObj, Absent, <<>>, 0)
AUndef == Arg("undefined", EmptyObj, Absent, <<>>, 0)
ANull == Arg("null", EmptyObj, Absent, <<>>, 0)
AObj(o) == Arg("obj", o, Absent, <<>>, 0)
AVal(v) == Arg("val", EmptyObj, v, <<>>, 0)
AList(l) == Arg("list", EmptyObj, Absent, l, 0)
ANum(n) == Arg("num", EmptyObj, Absent, <<>>, n)
\* true or false
ABool(b) == Arg("bool", EmptyObj, Absent, <<>>, IF b THEN 1 ELSE 0)
\* {count: n}
ACount(n) == Arg("count", EmptyObj, Absent, <<>>, n)
\* {count: undefined}
ACountUndef == Arg("countundefined", EmptyObj, Absent, <<>>, 0)
AOfRef(r) == IF r.tag = "obj" THEN AObj(r.o)
             ELSE IF r.tag = "null" THEN ANull ELSE AUndef

\* the callback has not been invoked
NoCb == [n |-> 0, err |-> NoErr, data |-> ANone, info |-> "none"]
\* one invocation callback(err, d, info)
Invoke(c, err, d, info) ==
  [n |-> c.n + 1, err |-> err, data |-> d, info |-> info]

(***************************************************************************)
(* The store: one collection of documents keyed by locator.  A document    *)
(* carries the payload field "name"; its locator is its key.               *)
(***************************************************************************)
Missing == [present |-> FALSE, name |-> Absent]
Doc(nm) == [present |-> TRUE, name |-> nm]
StoredName(o) == IF o["name"][1] = "str" THEN o["name"] ELSE Absent
\* the document at locator u as the object the store returns
DocObj(s, u) == [k \in Keys |-> IF k = "_uri" THEN u
                                  ELSE IF k = "name" THEN s[u].name
                                  ELSE Absent]
Present(s) == {u \in Uris : s[u].present}

(***************************************************************************)
(* Connector base class (loopback-connector), as the source calls it.      *)
(***************************************************************************)
\* self.getIdValue(model, data): data[idName]
getIdValue(d) == Get(d, idName)
\* self.setIdValue(model, data, value): if (data) data[idName] = value
setIdValue(r, value) ==
  IF r.tag = "obj" THEN JSObj(Set(r.o, idName, value)) ELSE r
\* self.fromDatabase(model, data): null for no data, else the data
fromDatabase(r) == IF r.tag = "obj" THEN r ELSE JSNull
\* String(idValue), applied to a locator read from an acknowledgement
String(v) == IF v[1] \in {"uri", "str"} THEN v
             ELSE IF v[1] = "num" THEN <<"str", 100 + v[2]>>
             ELSE <<"str", 0>>

(***************************************************************************)
(* Filters and native queries.  Both are JavaScript objects given as the   *)
(* sequence of their entries in key order.  The value of an entry of a     *)
(* filter is a literal (kind "lit"), a plain object given as the sequence  *)
(* of its entries (kind "obj", the entries in c), an array of filters      *)
(* (kind "arr", in sub), or an array of literals or a regular expression   *)
(* (kind "val", the value in c[1].val).  A native query has at most one    *)
(* entry per key; the value of an entry is a literal (op "eq"), the object *)
(* {$type: 10} (op "$type"), another object (op "obj", its entries in c),  *)
(* an array of native queries (op "arr", in sub), an array of filters      *)
(* copied as it was given (op "raw", in sub), or an array of literals or a *)
(* regular expression (op "val", in c[1].val).                             *)
(*                                                                         *)
(* A string value Str(n) with n >= 1 is a string of one character, Str(0)  *)
(* is the empty string, and a locator is a string of several characters.   *)
(***************************************************************************)
\* values inside an operator clause: a literal, a two-element array [a, b],
\* or the regular expression new RegExp(src, f) whose pattern is the text of
\* the literal or array src
CLit(v) == [tag |-> "lit", a |-> v, b |-> Absent, f |-> Absent]
CArr(lo, hi) == [tag |-> "arr", a |-> lo, b |-> hi, f |-> Absent]
CRegExp(src, flags) == [tag |-> "regex", a |-> src.a, b |-> src.b, f |-> flags]
CEntry(k, val) == [k |-> k, val |-> val]

WhereEntry(k, v) == [k |-> k, kind |-> "lit", v |-> v, c |-> <<>>, sub |-> <<>>]
WhereClause(k, c) ==
  [k |-> k, kind |-> "obj", v |-> Absent, c |-> c, sub |-> <<>>]
WhereList(k, sub) ==
  [k |-> k, kind |-> "arr", v |-> Absent, c |-> <<>>, sub |-> sub]
WhereValue(k, val) ==
  [k |-> k, kind |-> "val", v |-> Absent, c |-> <<CEntry("", val)>>,
   sub |-> <<>>]
WhereObj(e) == [tag |-> "obj", e |-> e]
WhereUndefined == [tag |-> "undefined", e |-> <<>>]
WhereNull == [tag |-> "null", e |-> <<>>]
\* a number, a string or a boolean given as the filter
WherePrimitive(t) == [tag |-> t, e |-> <<>>]
\* Object.keys of an array: '0', '1', ...
IndexKey(i) == IF i = 0 THEN "0" ELSE IF i = 1 THEN "1" ELSE "2"
\* an array of literals given as the filter
WhereArray(l) ==
  [tag |-> "arr", e |-> [i \in 1..Len(l) |-> WhereEntry(IndexKey(i - 1), l[i])]]

QEntry(k, op, v) == [k |-> k, op |-> op, v |-> v, c |-> <<>>, sub |-> <<>>]
QObj(k, c) == [k |-> k, op |-> "obj", v |-> Absent, c |-> c, sub |-> <<>>]
QList(k, sub) == [k |-> k, op |-> "arr", v |-> Absent, c |-> <<>>, sub |-> sub]
QRaw(k, sub) == [k |-> k, op |-> "raw", v |-> Absent, c |-> <<>>, sub |-> sub]
\* query[k] = cond for a cond that is not a plain object (lines 908-915)
QVal(k, val) ==
  IF val.tag = "lit"
  THEN IF val.a = Null THEN QEntry(k, "$type", <<"num", 10>>)
       ELSE QEntry(k, "eq", val.a)
  ELSE [k |-> k, op |-> "val", v |-> Absent, c |-> <<CEntry("", val)>>,
        sub |-> <<>>]

\* an exception thrown out of buildWhere, in the place of the query it
\* would have returned
Thrown(name) == <<QEntry(name, "throw", Absent)>>
IsThrown(q) == q # <<>> /\ q[1].op = "throw"
ThrownName(q) == q[1].k

\* query[k] = ent: replaces the entry of key k in place, or appends
RECURSIVE Put(_, _)
Put(q, ent) ==
  IF q = <<>> THEN <<ent>>
  ELSE IF Head(q).k = ent.k THEN <<ent>> \o Tail(q)
  ELSE <<Head(q)>> \o Put(Tail(q), ent)

\* delete query[k]
QDelete(q, k) == SelectSeq(q, LAMBDA x : x.k # k)

\* cond.options and cond[key] of a plain object cond
CHas(c, k) == \E i \in 1..Len(c) : c[i].k = k
CGet(c, k) == IF CHas(c, k)
              THEN c[CHOOSE i \in 1..Len(c) : c[i].k = k].val
              ELSE CLit(Undefined)

\* the character at index i of the locator u, a string of one character
UriChar(u, i) == <<"chr", 2 * u[2] + i>>

\* cond[0] and cond[1] of the operand of between: the elements of an array,
\* the characters of a string, undefined for a number or a regular
\* expression (null and undefined throw, see BranchThrows)
Elem(val, i) ==
  IF val.tag = "arr" THEN (IF i = 0 THEN val.a ELSE val.b)
  ELSE IF val.tag = "lit" /\ val.a[1] = "str"
  THEN (IF i = 0 /\ val.a[2] # 0 THEN val.a ELSE Undefined)
  ELSE IF val.tag = "lit" /\ val.a[1] = "uri" THEN UriChar(val.a, i)
  ELSE Undefined

\* new RegExp(cond, options): an undefined options gives no flags, or the
\* flags of cond when cond is a regular expression
NoFlags == <<"str", 0>>
FlagI == <<"str", 9>>
\* the flags new RegExp accepts; anything else is a SyntaxError
ValidFlags(options) ==
  options.tag = "lit" /\ options.a \in {Undefined, NoFlags, FlagI}
RegExp(cond, options) ==
  CRegExp(cond, IF options.a # Undefined THEN options.a
                ELSE IF cond.tag = "regex" THEN cond.f ELSE NoFlags)

\* the exception the branch for the operator spec throws, "" when it
\* throws none: cond[0] of null or undefined, cond.map of a value that is
\* not an array, new RegExp with invalid flags
BranchThrows(spec, cond, options) ==
  IF spec = "between"
  THEN IF cond.tag = "lit" /\ cond.a \in {Null, Undefined}
       THEN "TypeError" ELSE ""
  ELSE IF spec = "inq"
  THEN IF cond.tag # "arr" THEN "TypeError" ELSE ""
  ELSE IF spec \in {"like", "nlike"}
  THEN IF ~ValidFlags(options) THEN "SyntaxError" ELSE ""
  ELSE ""

\* buildWhereSpec with between translated to exclusive bounds
buildWhereSpec_exclusive(spec, cond, options) ==
  IF spec = "between"
  THEN <<CEntry("$gt", CLit(Elem(cond, 0))),
         CEntry("$lt", CLit(Elem(cond, 1)))>>
  ELSE IF spec = "inq" THEN <<CEntry("$in", cond)>>
  ELSE IF spec = "like" THEN <<CEntry("$regex", RegExp(cond, options))>>
  ELSE IF spec = "nlike" THEN <<CEntry("$not", RegExp(cond, options))>>
  ELSE IF spec = "neq" THEN <<CEntry("$ne", cond)>>
  ELSE <<CEntry("$" \o spec, cond)>>

\* the object stored by the branch taken for the operator spec with
\* operand cond (lines 889-907), when the branch does not throw
buildWhereSpec(spec, cond, options) ==
  IF spec = "between"
  THEN <<CEntry("$gte", CLit(Elem(cond, 0))),
         CEntry("$lte", CLit(Elem(cond, 1)))>>
  ELSE IF spec = "inq" THEN <<CEntry("$in", cond)>>
  ELSE IF spec = "like" THEN <<CEntry("$regex", RegExp(cond, options))>>
  ELSE IF spec = "nlike" THEN <<CEntry("$not", RegExp(cond, options))>>
  ELSE IF spec = "neq" THEN <<CEntry("$ne", cond)>>
  ELSE <<CEntry("$" \o spec, cond)>>

RECURSIVE buildWhere(_)

\* cond.map(function (c) { return self.buildWhere(model, c); }): an
\* exception thrown for one element leaves the map
Translated(sub) == [i \in 1..Len(sub) |-> buildWhere(sub[i])]
MapThrows(sub) == \E i \in 1..Len(sub) : IsThrown(Translated(sub)[i])
FirstThrown(sub) ==
  Translated(sub)[CHOOSE i \in 1..Len(sub) :
                    /\ IsThrown(Translated(sub)[i])
                    /\ \A j \in 1..(i - 1) : ~IsThrown(Translated(sub)[j])]

\* the value stored under '$' + k for k one of and, or, nor (lines 873-878)
buildWhereJunction(k, e) ==
  IF e.kind = "arr" THEN QList("$" \o k, Translated(e.sub))
  ELSE IF e.kind = "obj" THEN QObj("$" \o k, e.c)
  ELSE IF e.kind = "val" /\ e.c[1].val.tag = "arr"
  THEN QList("$" \o k, <<<<>>, <<>>>>)
  ELSE IF e.kind = "val"
  THEN [QVal(k, e.c[1].val) EXCEPT !.k = "$" \o k]
  ELSE QEntry("$" \o k, "eq", e.v)

\* the body of the forEach in buildWhere once the key k is settled
\* (lines 872-916); if (spec) is false for the key ''
buildWhereCond(q, k, e) ==
  IF k \in {"and", "or", "nor"}
  THEN IF e.kind = "arr" /\ MapThrows(e.sub) THEN FirstThrown(e.sub)
       ELSE QDelete(Put(q, buildWhereJunction(k, e)), k)
  ELSE IF e.kind = "obj"
  THEN IF e.c = <<>> THEN Put(q, QEntry(k, "eq", Undefined))
       ELSE IF e.c[1].k = "" THEN Put(q, QVal(k, e.c[1].val))
       ELSE IF BranchThrows(e.c[1].k, e.c[1].val, CGet(e.c, "options")) # ""
       THEN Thrown(BranchThrows(e.c[1].k, e.c[1].val, CGet(e.c, "options")))
       ELSE Put(q, QObj(k, buildWhereSpec(e.c[1].k, e.c[1].val,
                                          CGet(e.c, "options"))))
  ELSE IF e.kind = "arr" THEN Put(q, QRaw(k, e.sub))
  ELSE IF e.kind = "val" THEN Put(q, QVal(k, e.c[1].val))
  ELSE Put(q, QVal(k, CLit(e.v)))

\* buildWhereEntry with the identity key rewritten to 'id', as the first
\* generation of buildWhere did (line 213)
buildWhereEntry_id(q, e) ==
  buildWhereCond(q, IF e.k = idName THEN "id" ELSE e.k, e)

\* the body of the forEach in buildWhere, for one key of the filter
buildWhereEntry(q, e) ==
  buildWhereCond(q, IF e.k = idName THEN "_uri" ELSE e.k, e)

\* Object.keys(where).forEach(...): an exception ends the loop
RECURSIVE buildWhereLoop(_, _)
buildWhereLoop(q, es) ==
  IF es = <<>> \/ IsThrown(q) THEN q
  ELSE buildWhereLoop(buildWhereEntry(q, Head(es)), Tail(es))

buildWhere(where) ==
  IF where.tag \notin {"obj", "arr"} THEN <<>>
  ELSE buildWhereLoop(<<>>, where.e)

\* a native query read as a filter again: the same object, entry by entry
RECURSIVE AsWhere(_)
AsWhere(q) ==
  WhereObj([i \in 1..Len(q) |->
    IF q[i].op = "eq" THEN WhereEntry(q[i].k, q[i].v)
    ELSE IF q[i].op = "$type"
    THEN WhereClause(q[i].k, <<CEntry("$type", CLit(q[i].v))>>)
    ELSE IF q[i].op = "obj" THEN WhereClause(q[i].k, q[i].c)
    ELSE IF q[i].op = "val" THEN WhereValue(q[i].k, q[i].c[1].val)
    ELSE IF q[i].op = "raw" THEN WhereList(q[i].k, q[i].sub)
    ELSE WhereList(q[i].k,
                   [j \in 1..Len(q[i].sub) |-> AsWhere(q[i].sub[j])])])

(***************************************************************************)
(* Update-data sanitization.                                               *)
(* A sanitized payload is {$set: payload} (wrap) or the forwarded          *)
(* operator entries (fwd).                                                 *)
(***************************************************************************)
NoParsed == [wrap |-> FALSE, payload |-> EmptyObj, fwd |-> EmptyObj]

\* the for loop over acceptedOperators: <<parsedData, usedOperators>>
RECURSIVE parseLoop(_, _, _, _)
parseLoop(d, i, parsedData, usedOperators) ==
  IF i > Len(acceptedOperators) THEN <<parsedData, usedOperators>>
  ELSE IF Truthy(d[acceptedOperators[i]])
       THEN parseLoop(d, i + 1,
                      Set(parsedData, acceptedOperators[i], d[acceptedOperators[i]]),
                      usedOperators + 1)
       ELSE parseLoop(d, i + 1, parsedData, usedOperators)

parseUpdateData(d) ==
  IF allowExtendedOperators = TRUE
  THEN LET r == parseLoop(d, 1, EmptyObj, 0)
       IN IF r[2] = 0
          THEN [wrap |-> TRUE, payload |-> d, fwd |-> EmptyObj]
          ELSE [wrap |-> FALSE, payload |-> EmptyObj, fwd |-> r[1]]
  ELSE [wrap |-> TRUE, payload |-> d, fwd |-> EmptyObj]

(***************************************************************************)
(* Field projection.  fields is undefined, a list of names, or a map given *)
(* as the sequence of its entries [k, v] in key order.                     *)
(***************************************************************************)
FieldsUndefined == [tag |-> "undefined", e |-> <<>>]
FieldsList(l) == [tag |-> "list", e |-> [i \in 1..Len(l) |-> [k |-> l[i], v |-> Absent]]]
FieldsMap(e) == [tag |-> "map", e |-> e]

\* idIncluded without the loop over the keys: a map that does not name the
\* identity field includes it
idIncluded_unlisted(fields, idn) ==
  LET has == \E i \in 1..Len(fields.e) : fields.e[i].k = idn
      val == IF has
             THEN fields.e[CHOOSE i \in 1..Len(fields.e) : fields.e[i].k = idn].v
             ELSE Undefined
  IN IF fields.tag = "undefined" THEN TRUE
     ELSE IF fields.tag = "list" THEN has
     ELSE IF Truthy(val) THEN TRUE
     ELSE IF has /\ ~Truthy(val) THEN FALSE
     ELSE TRUE

idIncluded(fields, idn) ==
  LET has == \E i \in 1..Len(fields.e) : fields.e[i].k = idn
      val == IF has
             THEN fields.e[CHOOSE i \in 1..Len(fields.e) : fields.e[i].k = idn].v
             ELSE Undefined
  IN IF fields.tag = "undefined" THEN TRUE
     ELSE IF fields.tag = "list" THEN has
     ELSE IF Truthy(val) THEN TRUE
     ELSE IF has /\ ~Truthy(val) THEN FALSE
     ELSE IF Len(fields.e) > 0 THEN ~Truthy(fields.e[1].v)
     ELSE TRUE

(***************************************************************************)
(* The store client: what a request does to the collection and what it     *)
(* answers.  Every request may also fail with a store error, leaving the   *)
(* collection as it was and answering no result.                           *)
(***************************************************************************)
OkResp == [err |-> NoErr, defined |-> TRUE, docUri |-> Absent,
           value |-> JSUndef, n |-> 0, upserted |-> FALSE,
           updatedExisting |-> FALSE, list |-> <<>>]
ErrResp(e) == [OkResp EXCEPT !.err = e, !.defined = FALSE]
Outcome(s, r) == [store |-> s, resp |-> r]

NoReq == [command |-> "", query |-> <<>>, doc |-> EmptyObj,
          update |-> NoParsed, upsert |-> FALSE, multi |-> FALSE,
          new |-> FALSE, fields |-> FieldsUndefined]

EntryMatches(s, u, e) ==
  /\ e.op = "eq"
  /\ e.k \in Keys
  /\ DocObj(s, u)[e.k] = e.v

Matching(s, q) ==
  {u \in Present(s) : \A i \in 1..Len(q) : EntryMatches(s, u, q[i])}

\* the locators of S in ascending order
RECURSIVE SortedUris(_)
SortedUris(S) ==
  IF S = {} THEN <<>>
  ELSE LET m == CHOOSE u \in S : \A w \in S : u[2] <= w[2]
       IN <<m>> \o SortedUris(S \ {m})

\* the document after an update with a sanitized payload
ApplyUpdate(doc, upd) ==
  IF upd.wrap
  THEN IF upd.payload["name"] = Absent THEN doc
       ELSE Doc(StoredName(upd.payload))
  ELSE IF upd.fwd["$set"][1] = "obj" THEN Doc(Str(upd.fwd["$set"][2]))
       ELSE IF upd.fwd["$unset"][1] = "obj" THEN Doc(Absent)
       ELSE doc

\* an update that would give document u another locator is refused
KeyMod(upd, u) ==
  upd.wrap /\ upd.payload["_uri"] # Absent /\ upd.payload["_uri"] # u

InsertOutcomes(s, doc, ups) ==
  LET target == IF doc["_uri"] \in Uris THEN {doc["_uri"]} ELSE Uris
  IN {Outcome([s EXCEPT ![u] = Doc(StoredName(doc))],
              [OkResp EXCEPT !.docUri = u, !.n = 1, !.upserted = ups]) :
        u \in {t \in target : ~s[t].present}}

SaveOutcomes(s, doc) ==
  IF doc["_uri"] \in Uris
  THEN {Outcome([s EXCEPT ![doc["_uri"]] = Doc(StoredName(doc))],
                [OkResp EXCEPT !.docUri = doc["_uri"], !.n = 1,
                               !.upserted = ~s[doc["_uri"]].present])}
  ELSE InsertOutcomes(s, doc, TRUE)

FindOneOutcomes(s, q) ==
  LET m == SortedUris(Matching(s, q))
  IN {Outcome(s, [OkResp EXCEPT
        !.value = IF m = <<>> THEN JSNull ELSE JSObj(DocObj(s, m[1]))])}

FindAndModifyOutcomes(s, r) ==
  LET m == SortedUris(Matching(s, r.query))
      target == IF r.query # <<>> /\ r.query[1].k = "_uri" /\ r.query[1].v \in Uris
                THEN {r.query[1].v} ELSE {}
  IN IF m # <<>> /\ KeyMod(r.update, m[1]) THEN {}
     ELSE IF m # <<>>
     THEN LET s2 == [s EXCEPT ![m[1]] = ApplyUpdate(s[m[1]], r.update)]
          IN {Outcome(s2, [OkResp EXCEPT
                !.value = JSObj(DocObj(IF r.new THEN s2 ELSE s, m[1])),
                !.n = 1, !.updatedExisting = TRUE])}
     ELSE IF r.upsert /\ target # {}
     THEN {LET s2 == [s EXCEPT ![u] = ApplyUpdate(Doc(Absent), r.update)]
           IN Outcome(s2, [OkResp EXCEPT
                !.value = IF r.new THEN JSObj(DocObj(s2, u)) ELSE JSNull,
                !.n = 1, !.upserted = TRUE]) : u \in target}
     ELSE {Outcome(s, [OkResp EXCEPT !.value = JSNull])}

RemoveOutcomes(s, q) ==
  LET m == Matching(s, q)
  IN {Outcome([u \in Uris |-> IF u \in m THEN Missing ELSE s[u]],
              [OkResp EXCEPT !.n = Cardinality(m)])}

UpdateOutcomes(s, r) ==
  LET m == Matching(s, r.query)
  IN IF \E u \in m : KeyMod(r.update, u) THEN {}
     ELSE IF m = {} /\ r.upsert
     THEN {Outcome([s EXCEPT ![u] = ApplyUpdate(Doc(Absent), r.update)],
                   [OkResp EXCEPT !.n = 1, !.upserted = TRUE]) :
             u \in Uris \ Present(s)}
     ELSE {Outcome([u \in Uris |-> IF u \in m
                                    THEN ApplyUpdate(s[u], r.update)
                                    ELSE s[u]],
                   [OkResp EXCEPT !.n = Cardinality(m)])}

CountOutcomes(s, q) ==
  {Outcome(s, [OkResp EXCEPT !.n = Cardinality(Matching(s, q))])}

\* the projection keeps field k of a document: a list keeps the fields it
\* names, a map the fields it marks truthy or, when it marks none truthy,
\* the fields it does not name; the locator is always returned
Projected(fields, k) ==
  LET has == \E i \in 1..Len(fields.e) : fields.e[i].k = k
  IN IF fields.tag = "undefined" \/ k = "_uri" THEN TRUE
     ELSE IF fields.tag = "list" THEN has
     ELSE IF has
     THEN Truthy(fields.e[CHOOSE i \in 1..Len(fields.e) : fields.e[i].k = k].v)
     ELSE \A i \in 1..Len(fields.e) : ~Truthy(fields.e[i].v)

Project(o, fields) ==
  [k \in Keys |-> IF Projected(fields, k) THEN o[k] ELSE Absent]

\* find answers a cursor over the matching documents, in locator order
\* until the cursor is sorted
FindOutcomes(s, r) ==
  LET m == SortedUris(Matching(s, r.query))
  IN {Outcome(s, [OkResp EXCEPT
        !.list = [i \in 1..Len(m) |-> Project(DocObj(s, m[i]), r.fields)]])}

\* strings that the code takes apart are sequences of characters
Chars(name) ==
  CASE name = "id" -> <<"i", "d">>
    [] name = "_uri" -> <<"_", "u", "r", "i">>
    [] name = "name" -> <<"n", "a", "m", "e">>
    [] OTHER -> <<>>

\* the value a document holds under the sort key, as a rank: a missing
\* field sorts before every value
SortRank(o, key) ==
  IF key = Chars("_uri") THEN o["_uri"][2]
  ELSE IF key = Chars("name") /\ o["name"] # Absent THEN o["name"][2]
  ELSE 0 - 1

\* document a comes before document b under the sort specification
RECURSIVE Before(_, _, _)
Before(a, b, sort) ==
  IF sort = <<>> THEN FALSE
  ELSE IF SortRank(a, sort[1].key) # SortRank(b, sort[1].key)
  THEN IF sort[1].dir = 1
       THEN SortRank(a, sort[1].key) < SortRank(b, sort[1].key)
       ELSE SortRank(a, sort[1].key) > SortRank(b, sort[1].key)
  ELSE Before(a, b, Tail(sort))

\* stable insertion of document o into the sorted list l
RECURSIVE Insert(_, _, _)
Insert(l, o, sort) ==
  IF l = <<>> THEN <<o>>
  ELSE IF Before(o, l[1], sort) THEN <<o>> \o l
  ELSE <<l[1]>> \o Insert(Tail(l), o, sort)

RECURSIVE Sorted(_, _)
Sorted(l, sort) ==
  IF l = <<>> THEN <<>>
  ELSE Insert(Sorted(SubSeq(l, 1, Len(l) - 1), sort), l[Len(l)], sort)

\* cursor.toArray: the documents sorted, then skipped, then limited
\* (a limit of 0 or none is no limit)
ToArray(l, c) ==
  LET sorted == Sorted(l, c.sort)
      from == IF c.skip = Undefined THEN 1 ELSE c.skip[2] + 1
      rest == SubSeq(sorted, from, Len(sorted))
  IN IF c.limit = Undefined \/ c.limit[2] = 0 \/ c.limit[2] >= Len(rest)
     THEN rest
     ELSE SubSeq(rest, 1, c.limit[2])

\* collection[command].apply(collection, args): every way the store may
\* complete request r on collection s
StoreOutcomes(s, r) ==
  {Outcome(s, ErrResp(e)) : e \in StoreErrors}
  \cup
  CASE r.command = "insert" -> InsertOutcomes(s, r.doc, FALSE)
    [] r.command = "save" -> SaveOutcomes(s, r.doc)
    [] r.command = "findOne" -> FindOneOutcomes(s, r.query)
    [] r.command = "findAndModify" -> FindAndModifyOutcomes(s, r)
    [] r.command = "remove" -> RemoveOutcomes(s, r.query)
    [] r.command = "update" -> UpdateOutcomes(s, r)
    [] r.command = "count" -> CountOutcomes(s, r.query)
    [] r.command = "find" -> FindOutcomes(s, r)
    [] OTHER -> {}

(***************************************************************************)
(* Inputs of the operations.                                               *)
(***************************************************************************)
\* the key of the pair {"id", "_uri"} that is not the identity field
OtherKey == IF idName = "id" THEN "_uri" ELSE "id"

\* records a caller passes to create and save
InputRecords ==
  {[k \in Keys |-> IF k = idName THEN i
                   ELSE IF k = OtherKey THEN o
                   ELSE IF k = "name" THEN n
                   ELSE Absent] :
     i \in {Absent} \cup Uris, o \in {Absent, Uri(1)}, n \in {Absent} \cup Vals}

\* payloads a caller passes to the update operations
UpdatePayloads ==
  {[k \in Keys |-> IF k = idName THEN i
                   ELSE IF k = "name" THEN n
                   ELSE Absent] :
     i \in {Absent, Uri(1)}, n \in {Absent} \cup Vals}
  \cup {Set(EmptyObj, "$set", v) : v \in Subs}
  \cup {Set(EmptyObj, "$unset", Sub(1)),
        Set(Set(EmptyObj, "$set", Zero), "name", Str(1)),
        Set(Set(EmptyObj, "$inc", Sub(1)), "$where", Sub(1))}

\* where filters a caller passes
WhereInputs ==
  {WhereUndefined, WhereObj(<<>>)}
  \cup {WhereObj(<<WhereEntry(idName, u)>>) : u \in Uris}
  \cup {WhereObj(<<WhereEntry("name", v)>>) : v \in Vals}
  \cup {WhereObj(<<WhereClause("name", <<CEntry("inq", CLit(Str(1)))>>)>>)}

\* the filter {where: w, fields: f} of all(); order is undefined or a list
\* of strings, limit, skip and offset are undefined or numbers
OrderUndefined == [tag |-> "undefined", s |-> <<>>, l |-> <<>>]
\* order given as one string, or as a list of strings
OrderString(s) == [tag |-> "str", s |-> s, l |-> <<>>]
OrderList(l) == [tag |-> "list", s |-> <<>>, l |-> l]
AllFilter(w, f) == [where |-> w, fields |-> f, order |-> OrderUndefined,
                    limit |-> Undefined, skip |-> Undefined,
                    offset |-> Undefined]
AllFilters == {AllFilter(w, FieldsUndefined) : w \in WhereInputs}
NoFilter == AllFilter(WhereUndefined, FieldsUndefined)
\* the sort, limit and skip set on a cursor
NoCursor == [sort |-> <<>>, limit |-> Undefined, skip |-> Undefined]

(***************************************************************************)
(* The state.                                                              *)
(***************************************************************************)
Call(op, uri, where, d) == [op |-> op, uri |-> uri, where |-> where, data |-> d]
NoCall == Call("", Absent, WhereUndefined, EmptyObj)
NoResp == [OkResp EXCEPT !.defined = FALSE]
NoPrev == [op |-> "", arg |-> Absent]
\* the data source as an event emitter: the listeners registered with
\* once(), and the notifications it has emitted
NoEvents == [listeners |-> <<>>, emitted |-> <<>>]

Settings == <<idName, allowExtendedOperators>>

Init ==
  /\ idName \in {"id", "_uri"}
  /\ allowExtendedOperators \in BOOLEAN
  /\ db = FALSE
  /\ store = [u \in Uris |-> Missing]
  /\ pc = "idle"
  /\ call = NoCall
  /\ data = EmptyObj
  /\ req = NoReq
  /\ nreq = 0
  /\ resp = NoResp
  /\ cb = NoCb
  /\ thrown = ""
  /\ prev = NoPrev
  /\ parsed = NoParsed
  /\ filter = NoFilter
  /\ cursor = NoCursor
  /\ ret = <<>>
  /\ dataSource = NoEvents

\* connect(): creates the database client when there is none
connect ==
  /\ pc \in {"idle", "waiting"}
  /\ ~db
  /\ db' = TRUE
  /\ UNCHANGED <<Settings, filter, cursor, ret, dataSource, store, pc, call,
                 data, req, nreq, resp, cb, thrown, prev, parsed>>

\* collection(model) throws when there is no connection; otherwise the
\* command is sent to the collection
execute(r) ==
  IF db
  THEN /\ req' = r
       /\ nreq' = nreq + 1
       /\ pc' = "pending"
       /\ thrown' = thrown
  ELSE /\ req' = req
       /\ nreq' = nreq
       /\ pc' = "thrown"
       /\ thrown' = "MarkLogic connection is not established"

\* an exception thrown by buildWhere leaves the operation before execute()
\* is called
raise(q) ==
  /\ req' = req
  /\ nreq' = nreq
  /\ pc' = "thrown"
  /\ thrown' = ThrownName(q)

\* the store completes the pending request with outcome out
Complete(out) ==
  /\ store' = out.store
  /\ resp' = out.resp
  /\ pc' = "done"

ByUri(uri) == <<QEntry("_uri", "eq", uri)>>

(***************************************************************************)
(* create                                                                  *)
(***************************************************************************)
create ==
  /\ pc = "idle"
  /\ \E d \in InputRecords :
       /\ call' = Call("create", Absent, WhereUndefined, d)
       /\ data' = d
       /\ execute([NoReq EXCEPT !.command = "insert", !.doc = d])
  /\ UNCHANGED <<Settings, filter, cursor, ret, dataSource, db, store, resp,
                 cb, prev, parsed>>

\* idValue = result.documents[0].uri, converted with String() for a String id
create_idValue(result) == String(result.docUri)

\* create_applyId writing the fixed key 'id', as the first generation of
\* create did (line 145)
create_applyId_id(d, idValue) == Set(d, "id", idValue)

\* data[idName] = idValue
create_applyId(d, idValue) == Set(d, idName, idValue)

create_callback ==
  /\ pc = "pending"
  /\ call.op = "create"
  /\ \E out \in StoreOutcomes(store, req) :
       /\ Complete(out)
       /\ IF out.resp.err # NoErr
          THEN /\ data' = data
               /\ cb' = Invoke(cb, out.resp.err, ANone, "none")
          ELSE /\ data' = create_applyId(data, create_idValue(out.resp))
               /\ cb' = Invoke(cb, NoErr, AVal(create_idValue(out.resp)), "none")
  /\ UNCHANGED <<Settings, filter, cursor, ret, dataSource, db, call, req,
                 nreq, thrown, prev, parsed>>

(***************************************************************************)
(* save                                                                    *)
(***************************************************************************)
save ==
  /\ pc = "idle"
  /\ \E d \in InputRecords :
       /\ call' = Call("save", Absent, WhereUndefined, d)
       /\ data' = d
       /\ execute([NoReq EXCEPT !.command = "save", !.doc = d])
  /\ UNCHANGED <<Settings, filter, cursor, ret, dataSource, db, store, resp,
                 cb, prev, parsed>>

\* save_restore without the delete of data._uri
save_restore_nostrip(d, idValue) == setIdValue(JSObj(d), idValue).o

\* self.setIdValue(model, data, idValue); idName !== '_uri' && delete data._uri
save_restore(d, idValue) ==
  LET d1 == setIdValue(JSObj(d), idValue).o
  IN IF idName # "_uri" THEN Delete(d1, "_uri") ELSE d1

\* info.isNewInstance from the recognised result shapes
save_info(result) ==
  IF result.defined
  THEN IF result.n = 1
       THEN IF result.upserted THEN "new" ELSE "notnew"
       ELSE "empty"
  ELSE "empty"

\* result && result.ops
save_ops(result, doc) ==
  IF ~result.defined THEN AUndef
  ELSE IF result.upserted THEN AList(<<doc>>) ELSE AUndef

save_callback ==
  /\ pc = "pending"
  /\ call.op = "save"
  /\ \E out \in StoreOutcomes(store, req) :
       /\ Complete(out)
       /\ data' = IF out.resp.err = NoErr
                  THEN save_restore(data, getIdValue(call.data))
                  ELSE data
       /\ cb' = Invoke(cb, out.resp.err, save_ops(out.resp, req.doc),
                       save_info(out.resp))
  /\ UNCHANGED <<Settings, filter, cursor, ret, dataSource, db, call, req,
                 nreq, thrown, prev, parsed>>

(***************************************************************************)
(* exists                                                                  *)
(***************************************************************************)
exists ==
  /\ pc = "idle"
  /\ \E uri \in Uris :
       /\ call' = Call("exists", uri, WhereUndefined, EmptyObj)
       /\ execute([NoReq EXCEPT !.command = "findOne", !.query = ByUri(uri)])
  /\ UNCHANGED <<Settings, filter, cursor, ret, dataSource, db, store, data,
                 resp, cb, prev, parsed>>

\* callback(err, !!(!err && data))
exists_callback ==
  /\ pc = "pending"
  /\ call.op = "exists"
  /\ \E out \in StoreOutcomes(store, req) :
       /\ Complete(out)
       /\ cb' = Invoke(cb, out.resp.err,
                       ABool(out.resp.err = NoErr
                             /\ out.resp.defined
                             /\ out.resp.value.tag = "obj"),
                       "none")
  /\ UNCHANGED <<Settings, filter, cursor, ret, dataSource, db, call, data,
                 req, nreq, thrown, prev, parsed>>

(***************************************************************************)
(* find                                                                    *)
(***************************************************************************)
find ==
  /\ pc = "idle"
  /\ \E uri \in Uris :
       /\ call' = Call("find", uri, WhereUndefined, EmptyObj)
       /\ execute([NoReq EXCEPT !.command = "findOne", !.query = ByUri(uri)])
  /\ UNCHANGED <<Settings, filter, cursor, ret, dataSource, db, store, data,
                 resp, cb, prev, parsed>>

\* the value the handler receives as its second argument
Result(r) == IF r.defined THEN r.value ELSE JSUndef

\* data = self.fromDatabase(model, data); data && idName !== '_uri' && delete data._uri
find_data(r) ==
  LET d == fromDatabase(r)
  IN IF d.tag = "obj" /\ idName # "_uri" THEN JSObj(Delete(d.o, "_uri")) ELSE d

\* find_err turning a miss into an error, as updateAttributes does
find_err_notfound(err, d) ==
  IF err = NoErr /\ d.tag # "obj"
  THEN [kind |-> "message", name |-> "No <model> found for uri <uri>",
        model |-> "Widget", uri |-> Absent]
  ELSE err

\* the error passed on by callback(err, data)
find_err(err, d) == err

find_callback ==
  /\ pc = "pending"
  /\ call.op = "find"
  /\ \E out \in StoreOutcomes(store, req) :
       /\ Complete(out)
       /\ cb' = Invoke(cb, find_err(out.resp.err, find_data(Result(out.resp))),
                       AOfRef(find_data(Result(out.resp))), "none")
  /\ UNCHANGED <<Settings, filter, cursor, ret, dataSource, db, call, data,
                 req, nreq, thrown, prev, parsed>>

(***************************************************************************)
(* updateOrCreate.  The request literal {_uri: uri} reads the identifier   *)
(* uri, which no scope declares (the locator was stored in id): the read   *)
(* throws a ReferenceError while the arguments of execute() are built,     *)
(* after the identity field was deleted from the caller's record.          *)
(***************************************************************************)
updateOrCreate ==
  /\ pc = "idle"
  /\ \E d \in UpdatePayloads :
       /\ call' = Call("updateOrCreate", getIdValue(d), WhereUndefined, d)
       /\ data' = Delete(d, idName)
  /\ pc' = "thrown"
  /\ thrown' = "ReferenceError: uri is not defined"
  /\ UNCHANGED <<Settings, filter, cursor, ret, dataSource, db, store, req,
                 nreq, resp, cb, prev, parsed>>

\* the handler of updateOrCreate (lines 789-811).  No request is ever
\* issued, so it never runs and is not part of Next.  It reads the same
\* undeclared uri (lines 796 and 799) whenever the store reports no error.
updateOrCreate_callback ==
  /\ pc = "pending"
  /\ call.op = "updateOrCreate"
  /\ \E out \in StoreOutcomes(store, req) :
       /\ store' = out.store
       /\ resp' = out.resp
       /\ IF out.resp.err = NoErr
          THEN /\ pc' = "thrown"
               /\ thrown' = "ReferenceError: uri is not defined"
               /\ cb' = cb
          ELSE /\ pc' = "done"
               /\ thrown' = thrown
               /\ cb' = Invoke(cb, out.resp.err, AOfRef(Result(out.resp)),
                               IF out.resp.defined
                               THEN IF out.resp.updatedExisting
                                    THEN "notnew" ELSE "new"
                               ELSE "undefined")
  /\ UNCHANGED <<Settings, filter, cursor, ret, dataSource, db, call, data,
                 req, nreq, prev, parsed>>

(***************************************************************************)
(* destroy                                                                 *)
(***************************************************************************)
destroy ==
  /\ pc = "idle"
  /\ \E uri \in Uris :
       /\ call' = Call("destroy", uri, WhereUndefined, EmptyObj)
       /\ execute([NoReq EXCEPT !.command = "remove", !.query = ByUri(uri)])
  /\ UNCHANGED <<Settings, filter, cursor, ret, dataSource, db, store, data,
                 resp, cb, prev, parsed>>

destroy_callback ==
  /\ pc = "pending"
  /\ call.op = "destroy"
  /\ \E out \in StoreOutcomes(store, req) :
       /\ Complete(out)
       \* result && result.ops: a remove acknowledgement carries no ops
       /\ cb' = Invoke(cb, out.resp.err, AUndef, "none")
  /\ UNCHANGED <<Settings, filter, cursor, ret, dataSource, db, call, data,
                 req, nreq, thrown, prev, parsed>>

(***************************************************************************)
(* all                                                                     *)
(***************************************************************************)
WHas(e, k) == \E i \in 1..Len(e) : e[i].k = k
WAt(e, k) == e[CHOOSE i \in 1..Len(e) : e[i].k = k]
WDelete(e, k) == SelectSeq(e, LAMBDA x : x.k # k)
\* where[ent.k] = the value of ent
WPut(e, ent) ==
  IF WHas(e, ent.k)
  THEN [i \in 1..Len(e) |-> IF e[i].k = ent.k THEN ent ELSE e[i]]
  ELSE Append(e, ent)
WSet(e, k, v) == WPut(e, WhereEntry(k, v))

\* if (filter.where)
WhereTruthy(w) == w.tag \notin {"undefined", "null"}

\* if (filter.where[idName])
all_hasId(w) ==
  /\ w.tag = "obj"
  /\ WHas(w.e, idName)
  /\ (WAt(w.e, idName).kind = "lit" => Truthy(WAt(w.e, idName).v))

\* the identity key of filter.where is moved to _uri before translation
all_where(w) ==
  IF all_hasId(w)
  THEN WhereObj(WPut(WDelete(w.e, idName),
                     [WAt(w.e, idName) EXCEPT !.k = "_uri"]))
  ELSE w

all_query(f) ==
  IF WhereTruthy(f.where) THEN buildWhere(all_where(f.where)) ELSE <<>>

\* all(model, filter, options, callback) for a filter drawn from filters
all_with(filters) ==
  /\ pc = "idle"
  /\ \E f \in filters :
       /\ call' = Call("all", Absent, f.where, EmptyObj)
       /\ filter' = [f EXCEPT !.where = IF WhereTruthy(f.where)
                                         THEN all_where(f.where)
                                         ELSE f.where]
       /\ IF IsThrown(all_query(f)) THEN raise(all_query(f))
          ELSE execute([NoReq EXCEPT !.command = "find",
                                     !.query = all_query(f),
                                     !.fields = f.fields])
  /\ UNCHANGED <<Settings, cursor, ret, dataSource, db, store, data, resp, cb,
                 prev, parsed>>

all == all_with(AllFilters)

\* self.idNames(model): the names of the model's identity properties
idNames == <<Chars(idName)>>

\* the white space characters of \s and of trim() among the characters the
\* model writes: blank, tab, line feed, carriage return, form feed
WhiteSpace == {" ", "\t", "\n", "\r", "\f"}

EndsWith(s, t) ==
  /\ Len(s) >= Len(t)
  /\ SubSeq(s, Len(s) - Len(t) + 1, Len(s)) = t

RECURSIVE TrimRight(_)
TrimRight(s) ==
  IF s # <<>> /\ s[Len(s)] \in WhiteSpace
  THEN TrimRight(SubSeq(s, 1, Len(s) - 1))
  ELSE s

RECURSIVE TrimLeft(_)
TrimLeft(s) ==
  IF s # <<>> /\ s[1] \in WhiteSpace THEN TrimLeft(Tail(s)) ELSE s

\* String.prototype.trim
trim(s) == TrimLeft(TrimRight(s))

\* the end of s that /\s+(A|DE)SC$/ matches past the white space, or <<>>
\* when it does not match
SuffixOf(s) ==
  IF \E w \in WhiteSpace : EndsWith(s, <<w, "D", "E", "S", "C">>)
  THEN <<"D", "E", "S", "C">>
  ELSE IF \E w \in WhiteSpace : EndsWith(s, <<w, "A", "S", "C">>)
  THEN <<"A", "S", "C">>
  ELSE <<>>

\* m[1] of m = keys[index].match(/\s+(A|DE)SC$/); "" stands for m === null
all_match(s) ==
  IF SuffixOf(s) = <<"D", "E", "S", "C">> THEN "DE"
  ELSE IF SuffixOf(s) = <<"A", "S", "C">> THEN "A"
  ELSE ""

\* keys[index].replace(/\s+(A|DE)SC$/, '').trim()
all_key(s) ==
  trim(IF SuffixOf(s) = <<>> THEN s
       ELSE TrimRight(SubSeq(s, 1, Len(s) - Len(SuffixOf(s)))))

\* keys.split(',')
RECURSIVE SplitFrom(_, _)
SplitFrom(s, cur) ==
  IF s = <<>> THEN <<cur>>
  ELSE IF s[1] = "," THEN <<cur>> \o SplitFrom(Tail(s), <<>>)
  ELSE SplitFrom(Tail(s), Append(cur, s[1]))
split(s) == SplitFrom(s, <<>>)

\* order[key] = dir
SortEntry(key, dir) == [key |-> key, dir |-> dir]
OrderPut(order, ent) ==
  IF \E i \in 1..Len(order) : order[i].key = ent.key
  THEN [i \in 1..Len(order) |-> IF order[i].key = ent.key THEN ent ELSE order[i]]
  ELSE Append(order, ent)

\* all_dir taking any recognised suffix for descending
all_dir_always(m) == IF m # "" THEN 0 - 1 ELSE 1

\* if (m && m[1] === 'DE') -1 else 1
all_dir(m) == IF m = "DE" THEN 0 - 1 ELSE 1

\* the for loop over keys (lines 967-979)
RECURSIVE all_orderLoop(_, _)
all_orderLoop(order, keys) ==
  IF keys = <<>> THEN order
  ELSE LET key == all_key(keys[1])
       IN all_orderLoop(
            OrderPut(order,
                     SortEntry(IF key = Chars(idName) THEN Chars("_uri") ELSE key,
                               all_dir(all_match(keys[1])))),
            Tail(keys))

\* if (!filter.order): undefined, or the empty string
OrderGiven(o) == o.tag = "list" \/ (o.tag = "str" /\ o.s # <<>>)

\* filter.order after lines 956-961
all_filterOrder(o) ==
  IF ~OrderGiven(o) /\ Len(idNames) > 0 THEN OrderList(idNames) ELSE o

\* the argument of cursor.sort (lines 955-983)
all_order(o) ==
  IF OrderGiven(all_filterOrder(o))
  THEN all_orderLoop(<<>>, IF all_filterOrder(o).tag = "str"
                           THEN split(all_filterOrder(o).s)
                           ELSE all_filterOrder(o).l)
  ELSE <<SortEntry(Chars("_uri"), 1)>>

\* the argument of cursor.skip, if it is called (lines 989-993)
all_skip(f) ==
  IF Truthy(f.skip) THEN f.skip
  ELSE IF Truthy(f.offset) THEN f.offset
  ELSE Undefined

\* the argument of cursor.limit, if it is called (lines 986-988)
all_limit(f) == IF Truthy(f.limit) THEN f.limit ELSE Undefined

\* processResponse(err, cursor)
processResponse ==
  /\ pc = "pending"
  /\ call.op = "all"
  /\ \E out \in StoreOutcomes(store, req) :
       /\ store' = out.store
       /\ resp' = out.resp
       /\ IF out.resp.err # NoErr
          THEN /\ pc' = "done"
               /\ cb' = Invoke(cb, out.resp.err, ANone, "none")
               /\ UNCHANGED <<filter, cursor>>
          ELSE /\ pc' = "cursor"
               /\ cb' = cb
               /\ filter' = [filter EXCEPT !.order = all_filterOrder(filter.order)]
               /\ cursor' = [sort |-> all_order(filter.order),
                             limit |-> all_limit(filter),
                             skip |-> all_skip(filter)]
  /\ UNCHANGED <<Settings, ret, dataSource, db, call, data, req, nreq, thrown,
                 prev, parsed>>

\* if (fields || idName !== '_uri') delete o._uri
all_strip(o, fields) ==
  IF fields.tag # "undefined" \/ idName # "_uri" THEN Delete(o, "_uri") ELSE o

\* the function mapped over the documents of the cursor
all_map(o, fields) ==
  LET o1 == IF idIncluded(fields, idName)
            THEN setIdValue(JSObj(o), o["_uri"]).o ELSE o
  IN fromDatabase(JSObj(all_strip(o1, fields))).o

\* cursor.toArray(function(err, data) {...})
toArray_callback ==
  /\ pc = "cursor"
  /\ \/ \E e \in StoreErrors :
          /\ resp' = ErrResp(e)
          /\ cb' = Invoke(cb, e, ANone, "none")
     \/ /\ resp' = [resp EXCEPT !.list = ToArray(resp.list, cursor)]
        /\ cb' = Invoke(cb, NoErr,
                        AList([i \in 1..Len(ToArray(resp.list, cursor)) |->
                                 all_map(ToArray(resp.list, cursor)[i],
                                         filter.fields)]),
                        "none")
  /\ pc' = "done"
  /\ UNCHANGED <<Settings, filter, cursor, ret, dataSource, db, store, call,
                 data, req, nreq, thrown, prev, parsed>>

(***************************************************************************)
(* destroyAll and count                                                    *)
(***************************************************************************)
destroyAll ==
  /\ pc = "idle"
  /\ \E where \in WhereInputs :
       /\ call' = Call("destroyAll", Absent, where, EmptyObj)
       /\ IF IsThrown(buildWhere(where)) THEN raise(buildWhere(where))
          ELSE execute([NoReq EXCEPT !.command = "remove",
                                     !.query = buildWhere(where)])
  /\ UNCHANGED <<Settings, filter, cursor, ret, dataSource, db, store, data,
                 resp, cb, prev, parsed>>

\* affectedCount = info.result ? info.result.n : undefined
affectedCount(info) == IF info.defined THEN ACount(info.n) ELSE ACountUndef

destroyAll_callback ==
  /\ pc = "pending"
  /\ call.op = "destroyAll"
  /\ \E out \in StoreOutcomes(store, req) :
       /\ Complete(out)
       /\ cb' = IF out.resp.err # NoErr
                THEN Invoke(cb, out.resp.err, ANone, "none")
                ELSE Invoke(cb, NoErr, affectedCount(out.resp), "none")
  /\ UNCHANGED <<Settings, filter, cursor, ret, dataSource, db, call, data,
                 req, nreq, thrown, prev, parsed>>

count ==
  /\ pc = "idle"
  /\ \E where \in WhereInputs :
       /\ call' = Call("count", Absent, where, EmptyObj)
       /\ IF IsThrown(buildWhere(where)) THEN raise(buildWhere(where))
          ELSE execute([NoReq EXCEPT !.command = "count",
                                     !.query = buildWhere(where)])
  /\ UNCHANGED <<Settings, filter, cursor, ret, dataSource, db, store, data,
                 resp, cb, prev, parsed>>

count_callback ==
  /\ pc = "pending"
  /\ call.op = "count"
  /\ \E out \in StoreOutcomes(store, req) :
       /\ Complete(out)
       /\ cb' = Invoke(cb, out.resp.err,
                       IF out.resp.defined THEN ANum(out.resp.n) ELSE AUndef,
                       "none")
  /\ UNCHANGED <<Settings, filter, cursor, ret, dataSource, db, call, data,
                 req, nreq, thrown, prev, parsed>>

(***************************************************************************)
(* updateAttributes                                                        *)
(***************************************************************************)
updateAttributes ==
  /\ pc = "idle"
  /\ \E uri \in Uris, d \in UpdatePayloads :
       /\ call' = Call("updateAttributes", uri, WhereUndefined, d)
       /\ data' = d
       /\ execute([NoReq EXCEPT !.command = "findAndModify",
                                !.query = ByUri(uri),
                                !.update = parseUpdateData(d)])
  /\ UNCHANGED <<Settings, filter, cursor, ret, dataSource, db, store, resp,
                 cb, prev, parsed>>

\* updateAttributes_err without the !err test: the message replaces a store error
updateAttributes_err_overwrite(err, object, uri) ==
  IF object.tag # "obj" THEN NotFoundMsg(Model, uri) ELSE err

\* updateAttributes_err without the test for a missing object
updateAttributes_err_nocheck(err, object, uri) == err

\* if (!err && !object) err = 'No ' + model + ' found for uri ' + uri
updateAttributes_err(err, object, uri) ==
  IF err = NoErr /\ object.tag # "obj" THEN NotFoundMsg(Model, uri) ELSE err

\* self.setIdValue(model, object, uri); object && idName !== '_uri' && delete object._uri
updateAttributes_object(object, uri) ==
  LET o1 == setIdValue(object, uri)
  IN IF o1.tag = "obj" /\ idName # "_uri" THEN JSObj(Delete(o1.o, "_uri"))
     ELSE o1

updateAttributes_callback ==
  /\ pc = "pending"
  /\ call.op = "updateAttributes"
  /\ \E out \in StoreOutcomes(store, req) :
       /\ Complete(out)
       /\ cb' = Invoke(cb,
                       updateAttributes_err(out.resp.err, Result(out.resp), call.uri),
                       AOfRef(updateAttributes_object(Result(out.resp), call.uri)),
                       "none")
  /\ UNCHANGED <<Settings, filter, cursor, ret, dataSource, db, call, data,
                 req, nreq, thrown, prev, parsed>>

(***************************************************************************)
(* updateAll                                                               *)
(***************************************************************************)
\* delete data[idName]
updateAll_data(d) == Delete(d, idName)

\* updateAll_request with {multi: true, upsert: true}
updateAll_request_upsert(where, d) ==
  [NoReq EXCEPT !.command = "update",
                !.query = buildWhere(where),
                !.update = parseUpdateData(updateAll_data(d)),
                !.multi = TRUE,
                !.upsert = TRUE]

\* the request: where translated, payload sanitized, {multi: true, upsert: false}
updateAll_request(where, d) ==
  [NoReq EXCEPT !.command = "update",
                !.query = buildWhere(where),
                !.update = parseUpdateData(updateAll_data(d)),
                !.multi = TRUE,
                !.upsert = FALSE]

updateAll ==
  /\ pc = "idle"
  /\ \E where \in WhereInputs, d \in UpdatePayloads :
       /\ call' = Call("updateAll", Absent, where, d)
       /\ IF IsThrown(buildWhere(where))
          THEN /\ data' = d
               /\ raise(buildWhere(where))
          ELSE /\ data' = updateAll_data(d)
               /\ execute(updateAll_request(where, d))
  /\ UNCHANGED <<Settings, filter, cursor, ret, dataSource, db, store, resp,
                 cb, prev, parsed>>

updateAll_callback ==
  /\ pc = "pending"
  /\ call.op = "updateAll"
  /\ \E out \in StoreOutcomes(store, req) :
       /\ Complete(out)
       /\ cb' = IF out.resp.err # NoErr
                THEN Invoke(cb, out.resp.err, ANone, "none")
                ELSE Invoke(cb, NoErr, affectedCount(out.resp), "none")
  /\ UNCHANGED <<Settings, filter, cursor, ret, dataSource, db, call, data,
                 req, nreq, thrown, prev, parsed>>

(***************************************************************************)
(* autoupdate, automigrate and ping.  Without a connection handle the     *)
(* operation registers itself with dataSource.once('connected') and waits  *)
(* (pc = "waiting"); ping also registers once('error') and calls          *)
(* connect().  The data source emits 'connected' once connect() has run,   *)
(* and may emit 'error' at any time.  The model has one model with one     *)
(* index, so a run of autoupdate is one createIndex request and a run of   *)
(* automigrate is dropCollection, createCollection, then autoupdate.       *)
(***************************************************************************)
\* number of notifications the data source emits
MaxEvents == 3

\* the errors the data source may emit
EmitErrors == {StoreErr("ECONNREFUSED")}
\* the error of dropCollection for a collection that does not exist
NsNotFound == StoreErr("ns not found")

Listener(event, op) == [event |-> event, op |-> op]
Emitted(event, err) == [event |-> event, err |-> err]
\* dataSource.once(event, ...)
once(ds, event, op) ==
  [ds EXCEPT !.listeners = Append(@, Listener(event, op))]
\* the listeners emit(event) calls, and the ones that stay registered
Called(ds, event) == SelectSeq(ds.listeners, LAMBDA l : l.event = event)
Kept(ds, event) == SelectSeq(ds.listeners, LAMBDA l : l.event # event)
emit(ds, event, err) ==
  [listeners |-> Kept(ds, event),
   emitted |-> Append(ds.emitted, Emitted(event, err))]

\* the first store request of a run of the operation
FirstCommand(op) ==
  IF op = "autoupdate" THEN "createIndex"
  ELSE IF op = "automigrate" THEN "dropCollection"
  ELSE "findOne"

\* the body under if (self.db): the first request is sent
Run(op) ==
  /\ req' = [NoReq EXCEPT !.command = FirstCommand(op)]
  /\ nreq' = nreq + 1
  /\ pc' = "pending"

\* the else branch: once('connected'), and for ping once('error') and
\* self.connect(function() {})
Defer(op) ==
  /\ dataSource' = IF op = "ping"
                   THEN once(once(dataSource, "connected", op), "error", op)
                   ELSE once(dataSource, "connected", op)
  /\ db' = (op = "ping")
  /\ pc' = "waiting"
  /\ UNCHANGED <<req, nreq>>

\* if (self.db) {...} else {...}
Lifecycle(op) ==
  /\ call' = Call(op, Absent, WhereUndefined, EmptyObj)
  /\ IF db THEN Run(op) /\ UNCHANGED <<db, dataSource>> ELSE Defer(op)
  /\ UNCHANGED <<Settings, filter, cursor, ret, store, data, resp, cb, thrown,
                 prev, parsed>>

autoupdate ==
  /\ pc = "idle"
  /\ Lifecycle("autoupdate")

automigrate ==
  /\ pc = "idle"
  /\ Lifecycle("automigrate")

ping ==
  /\ pc = "idle"
  /\ Lifecycle("ping")

\* the data source emits 'connected': the listener registered by the
\* waiting operation calls the operation again
emit_connected ==
  /\ db
  /\ Len(dataSource.emitted) < MaxEvents
  /\ dataSource' = emit(dataSource, "connected", NoErr)
  /\ IF Called(dataSource, "connected") # <<>>
     THEN Run(Called(dataSource, "connected")[1].op)
     ELSE UNCHANGED <<req, nreq, pc>>
  /\ UNCHANGED <<Settings, filter, cursor, ret, db, store, call, data, resp,
                 cb, thrown, prev, parsed>>

\* the data source emits 'error': the listener registered by ping calls
\* cb(err)
emit_error ==
  /\ Len(dataSource.emitted) < MaxEvents
  /\ \E e \in EmitErrors :
       /\ dataSource' = emit(dataSource, "error", e)
       /\ cb' = IF Called(dataSource, "error") # <<>>
                THEN Invoke(cb, e, ANone, "none")
                ELSE cb
  /\ UNCHANGED <<Settings, filter, cursor, ret, db, store, pc, call, data,
                 req, nreq, resp, thrown, prev, parsed>>

\* self.db.dropCollection(collectionName, function(err, collection) {...})
dropCollection_callback ==
  /\ pc = "pending"
  /\ req.command = "dropCollection"
  /\ \/ \E e \in StoreErrors :
          /\ resp' = ErrResp(e)
          /\ cb' = Invoke(cb, e, ANone, "none")
          /\ pc' = "done"
          /\ UNCHANGED <<store, req, nreq>>
     \/ \E r \in {ErrResp(NsNotFound), OkResp} :
          /\ resp' = r
          /\ store' = IF r.err = NoErr THEN [u \in Uris |-> Missing] ELSE store
          /\ req' = [NoReq EXCEPT !.command = "createCollection"]
          /\ nreq' = nreq + 1
          /\ UNCHANGED <<cb, pc>>
  /\ UNCHANGED <<Settings, filter, cursor, ret, dataSource, db, call, data,
                 thrown, prev, parsed>>

\* self.db.createCollection(collectionName, modelCallback), then the final
\* callback of eachSeries: cb(err), or self.autoupdate(models, cb)
createCollection_callback ==
  /\ pc = "pending"
  /\ req.command = "createCollection"
  /\ \/ \E e \in StoreErrors :
          /\ resp' = ErrResp(e)
          /\ cb' = Invoke(cb, e, ANone, "none")
          /\ pc' = "done"
          /\ UNCHANGED <<req, nreq>>
     \/ /\ resp' = OkResp
        /\ req' = [NoReq EXCEPT !.command = "createIndex"]
        /\ nreq' = nreq + 1
        /\ UNCHANGED <<cb, pc>>
  /\ UNCHANGED <<Settings, filter, cursor, ret, dataSource, db, store, call,
                 data, thrown, prev, parsed>>

\* createIndex(keys, options, indexCallback), then the final callback of
\* async.each: cb(err)
createIndex_callback ==
  /\ pc = "pending"
  /\ req.command = "createIndex"
  /\ \E r \in {ErrResp(e) : e \in StoreErrors} \cup {OkResp} :
       /\ resp' = r
       /\ cb' = Invoke(cb, r.err, ANone, "none")
  /\ pc' = "done"
  /\ UNCHANGED <<Settings, filter, cursor, ret, dataSource, db, store, call,
                 data, req, nreq, thrown, prev, parsed>>

\* this.db.collection('dummy').findOne({_uri: 1}, cb)
ping_callback ==
  /\ pc = "pending"
  /\ req.command = "findOne"
  /\ call.op = "ping"
  /\ \E r \in {ErrResp(e) : e \in StoreErrors} \cup {OkResp} :
       /\ resp' = r
       /\ cb' = Invoke(cb, r.err, IF r.err = NoErr THEN ANull ELSE ANone,
                       "none")
  /\ pc' = "done"
  /\ UNCHANGED <<Settings, filter, cursor, ret, dataSource, db, store, call,
                 data, req, nreq, thrown, prev, parsed>>

NextLife ==
  \/ connect
  \/ autoupdate \/ automigrate \/ ping
  \/ emit_connected \/ emit_error
  \/ dropCollection_callback \/ createCollection_callback
  \/ createIndex_callback \/ ping_callback

SpecLife == Init /\ [][NextLife]_vars

(***************************************************************************)
(* The caller: once an operation has completed or thrown, the next one     *)
(* may be issued.  prev remembers a destroyAll by identity that succeeded  *)
(* and a find that missed, for the properties of repeated calls.           *)
(***************************************************************************)
SinglesOut(w) == w.tag = "obj" /\ Len(w.e) = 1 /\ w.e[1].k = idName

Summary ==
  IF pc = "done" /\ cb.err = NoErr /\ call.op = "destroyAll" /\ SinglesOut(call.where)
  THEN [op |-> "destroyAll", arg |-> call.where.e[1].v]
  ELSE IF pc = "done" /\ cb.err = NoErr /\ call.op = "find" /\ cb.data.tag = "null"
  THEN [op |-> "find", arg |-> call.uri]
  ELSE NoPrev

Return ==
  /\ pc \in {"done", "thrown"}
  /\ prev' = Summary
  /\ pc' = "idle"
  /\ call' = NoCall
  /\ data' = EmptyObj
  /\ req' = NoReq
  /\ nreq' = 0
  /\ resp' = NoResp
  /\ cb' = NoCb
  /\ thrown' = ""
  /\ filter' = NoFilter
  /\ cursor' = NoCursor
  /\ UNCHANGED <<Settings, ret, dataSource, db, store, parsed>>

Next ==
  \/ connect
  \/ create \/ create_callback
  \/ save \/ save_callback
  \/ exists \/ exists_callback
  \/ find \/ find_callback
  \/ updateOrCreate
  \/ destroy \/ destroy_callback
  \/ all \/ processResponse \/ toArray_callback
  \/ destroyAll \/ destroyAll_callback
  \/ count \/ count_callback
  \/ updateAttributes \/ updateAttributes_callback
  \/ updateAll \/ updateAll_callback
  \/ Return

Spec == Init /\ [][Next]_vars

(***************************************************************************)
(* parseUpdateData as a function of its inputs: every payload over a few   *)
(* keys (a plain field, allow-listed operators, an operator that is not    *)
(* allow-listed) and a few values (absent, falsy, truthy), under both      *)
(* settings of allowExtendedOperators.                                     *)
(***************************************************************************)
ParseKeys == {"name", "$inc", "$set", "$bit", "$where"}
ParseValues == {Absent, Zero, Str(1)} \cup Subs
ParsePayloads ==
  {[k \in Keys |-> IF k \in ParseKeys THEN f[k] ELSE Absent] :
     f \in [ParseKeys -> ParseValues]}

InitParse ==
  /\ idName = "id"
  /\ allowExtendedOperators \in BOOLEAN
  /\ db = FALSE
  /\ store = [u \in Uris |-> Missing]
  /\ pc = "idle"
  /\ call = NoCall
  /\ data \in ParsePayloads
  /\ req = NoReq
  /\ nreq = 0
  /\ resp = NoResp
  /\ cb = NoCb
  /\ thrown = ""
  /\ prev = NoPrev
  /\ parsed = NoParsed
  /\ filter = NoFilter
  /\ cursor = NoCursor
  /\ ret = <<>>
  /\ dataSource = NoEvents

parseStep ==
  /\ pc = "idle"
  /\ parsed' = parseUpdateData(data)
  /\ pc' = "done"
  /\ UNCHANGED <<Settings, filter, cursor, ret, dataSource, db, store, call,
                 data, req, nreq, resp, cb, thrown, prev>>

SpecParse == InitParse /\ [][parseStep]_vars

(***************************************************************************)
(* buildWhere as a function of its input: filters that are not objects,    *)
(* arrays, objects of literal entries (among them both the identity field  *)
(* and _uri, and a field named like a combinator), operator clauses with   *)
(* their keys in either order, and combinators over lists of filters.  A   *)
(* second step translates the native query again.                          *)
(***************************************************************************)
Num(n) == <<"num", n>>

WhereKeys == {"id", "_uri", "name", "and"}
WhereLiterals == {Str(1), Zero, Null}
LiteralEntries == {WhereEntry(k, v) : k \in WhereKeys, v \in WhereLiterals}
LiteralWheres ==
  {WhereObj(<<>>)}
  \cup {WhereObj(<<e>>) : e \in LiteralEntries}
  \cup {WhereObj(<<p[1], p[2]>>) :
          p \in {x \in LiteralEntries \X LiteralEntries : x[1].k # x[2].k}}

\* operands of between
Bounds == {Num(18), Num(30)}
Clauses ==
  {<<CEntry("between", CArr(lo, hi))>> : lo \in Bounds, hi \in Bounds}
  \cup {<<CEntry(op, CLit(Str(1))), CEntry("options", CLit(f))>> :
          op \in {"like", "nlike"}, f \in {FlagI}}
  \cup {<<CEntry("options", CLit(f)), CEntry(op, CLit(Str(1)))>> :
          op \in {"like", "nlike"}, f \in {FlagI}}
  \cup {<<CEntry(op, CLit(Str(1)))>> : op \in {"like", "nlike", "neq", "gt"}}
  \cup {<<CEntry("inq", CArr(Str(1), Zero))>>, <<>>}
\* clauses whose operand is not what the operator's branch expects, and
\* clauses whose first key is the empty string
Malformed ==
  {<<CEntry("inq", CLit(v))>> : v \in {Str(1), Null}}
  \cup {<<CEntry("between", CLit(v))>> : v \in {Str(1), Null, Num(18)}}
  \cup {<<CEntry("like", CLit(Str(1))), CEntry("options", CLit(Null))>>}
  \cup {<<CEntry("", CLit(v))>> : v \in {Num(18), Null}}
ClauseWheres ==
  {WhereObj(<<WhereClause(k, c)>>) : k \in {"id", "name"}, c \in Clauses}
  \cup {WhereObj(<<WhereEntry("id", Str(1)), WhereClause("name", c)>>) :
          c \in {<<CEntry("between", CArr(Num(18), Num(30)))>>}}
  \cup {WhereObj(<<WhereClause("name", c)>>) : c \in Malformed}
  \cup {WhereObj(<<WhereEntry("id", Str(1)), WhereClause("name", c)>>) :
          c \in {<<CEntry("inq", CLit(Str(1)))>>}}
  \cup {WhereObj(<<WhereList("name", <<WhereObj(<<WhereEntry("id", Str(1))>>)>>)>>),
        WhereObj(<<WhereValue("name", CArr(Str(1), Zero))>>)}

CombinatorWheres ==
  {WhereObj(<<WhereList(k, <<WhereObj(<<WhereEntry("id", Str(1))>>),
                             WhereObj(<<WhereEntry("name", Null)>>)>>)>>) :
     k \in {"and", "or", "nor"}}
  \cup {WhereObj(<<WhereList("and",
                    <<WhereObj(<<WhereEntry("id", Str(1))>>),
                      WhereObj(<<WhereClause("name",
                                   <<CEntry("inq", CLit(Null))>>)>>)>>)>>)}

NonMappingWheres ==
  {WhereUndefined, WhereNull, WherePrimitive("num"), WherePrimitive("str"),
   WherePrimitive("bool")}
  \cup {WhereArray(l) : l \in {<<>>, <<Str(1)>>, <<Zero, Str(1)>>}}

WhereCases ==
  LiteralWheres \cup ClauseWheres \cup CombinatorWheres \cup NonMappingWheres

InitWhere ==
  /\ idName \in {"id", "_uri"}
  /\ allowExtendedOperators = FALSE
  /\ db = FALSE
  /\ store = [u \in Uris |-> Missing]
  /\ pc = "idle"
  /\ call = NoCall
  /\ data = EmptyObj
  /\ req = NoReq
  /\ nreq = 0
  /\ resp = NoResp
  /\ cb = NoCb
  /\ thrown = ""
  /\ prev = NoPrev
  /\ parsed = NoParsed
  /\ filter \in {[NoFilter EXCEPT !.where = w] : w \in WhereCases}
  /\ cursor = NoCursor
  /\ ret = <<>>
  /\ dataSource = NoEvents

\* query = self.buildWhere(model, where), returning the query or throwing
Returned(q, next) ==
  IF IsThrown(q)
  THEN /\ pc' = "thrown"
       /\ thrown' = ThrownName(q)
       /\ ret' = ret
  ELSE /\ pc' = next
       /\ thrown' = thrown
       /\ ret' = q

translate ==
  /\ pc = "idle"
  /\ Returned(buildWhere(filter.where), "done")
  /\ UNCHANGED <<Settings, filter, cursor, dataSource, db, store, call, data,
                 req, nreq, resp, cb, prev, parsed>>

\* self.buildWhere(model, query): the native query translated again
retranslate ==
  /\ pc = "done"
  /\ Returned(buildWhere(AsWhere(ret)), "again")
  /\ UNCHANGED <<Settings, filter, cursor, dataSource, db, store, call, data,
                 req, nreq, resp, cb, prev, parsed>>

SpecWhere == InitWhere /\ [][translate \/ retranslate]_vars

(***************************************************************************)
(* all with ordering, paging and projection: a connected connector over   *)
(* a collection whose documents differ in name, and filters that vary the  *)
(* order (a list or one comma-separated string, with suffixes in upper and *)
(* lower case), limit, skip and offset, and the projection.                *)
(***************************************************************************)
Sp == <<" ">>
ASC == <<"A", "S", "C">>
DESC == <<"D", "E", "S", "C">>
asc == <<"a", "s", "c">>
desc == <<"d", "e", "s", "c">>

\* an entry of order: the field, then white space and the suffix if any
OrderPart(field, suffix) == [field |-> field, suffix |-> suffix]
OrderText(p) ==
  Chars(p.field) \o (IF p.suffix = <<>> THEN <<>> ELSE Sp \o p.suffix)
OrderSuffixes == {<<>>, ASC, DESC, asc, desc}
OrderParts == {OrderPart(f, x) : f \in Fields, x \in OrderSuffixes}
\* the entries of the orders drawn: one entry, or name then id
OrderPartLists ==
  {<<p>> : p \in OrderParts}
  \cup {<<OrderPart("name", x), OrderPart("id", y)>> :
          x \in OrderSuffixes, y \in {<<>>, DESC}}

OrderTexts(ps) == [i \in 1..Len(ps) |-> OrderText(ps[i])]
\* the entries joined with ', ' into one string
RECURSIVE OrderJoin(_)
OrderJoin(ps) ==
  IF Len(ps) = 1 THEN OrderText(ps[1])
  ELSE OrderText(ps[1]) \o <<",", " ">> \o OrderJoin(Tail(ps))

Orders ==
  {OrderUndefined, OrderString(<<>>)}
  \cup {OrderList(OrderTexts(ps)) : ps \in OrderPartLists}
  \cup {OrderString(OrderJoin(ps)) : ps \in OrderPartLists}
  \cup {OrderList(<<Chars("name") \o <<w>> \o DESC>>) : w \in {"\t", "\n"}}

PageValues == {Undefined, Zero, Num(1)}
\* true and false in a projection map
Yes == Num(1)
FieldsInputs ==
  {FieldsUndefined, FieldsList(<<>>)}
  \cup {FieldsList(<<f>>) : f \in Fields}
  \cup {FieldsList(<<f, "name">>) : f \in {"id", "_uri"}}
  \cup {FieldsMap(<<[k |-> f, v |-> v]>>) : f \in Fields, v \in {Yes, Zero}}
  \cup {FieldsMap(<<[k |-> "name", v |-> v], [k |-> f, v |-> w]>>) :
          f \in {"id", "_uri"}, v \in {Yes, Zero}, w \in {Yes, Zero}}
  \cup {FieldsMap(<<>>)}

PagedFilters ==
  {[NoFilter EXCEPT !.order = o] : o \in Orders}
  \cup {[NoFilter EXCEPT !.limit = l, !.skip = k, !.offset = o] :
          l \in PageValues, k \in PageValues, o \in PageValues \cup {Num(2)}}
  \cup {[NoFilter EXCEPT !.fields = f, !.where = w] :
          f \in FieldsInputs,
          w \in {WhereUndefined, WhereObj(<<WhereEntry("id", Uri(1))>>)}}

\* names of the documents of the collection
AllNames == {Str(1), Str(2)}

InitAll ==
  /\ idName \in {"id", "_uri"}
  /\ allowExtendedOperators = FALSE
  /\ db = TRUE
  /\ store \in [Uris -> {Missing} \cup {Doc(n) : n \in AllNames}]
  /\ pc = "idle"
  /\ call = NoCall
  /\ data = EmptyObj
  /\ req = NoReq
  /\ nreq = 0
  /\ resp = NoResp
  /\ cb = NoCb
  /\ thrown = ""
  /\ prev = NoPrev
  /\ parsed = NoParsed
  /\ filter = NoFilter
  /\ cursor = NoCursor
  /\ ret = <<>>
  /\ dataSource = NoEvents

NextAll ==
  \/ all_with(PagedFilters)
  \/ processResponse
  \/ toArray_callback
  \/ Return

SpecAll == InitAll /\ [][NextAll]_vars

(***************************************************************************)
(* idIncluded as a function of its inputs: no projection, lists of up to  *)
(* two field names, and maps of up to two entries whose values are truthy, *)
(* falsy or undefined, in every key order.                                 *)
(***************************************************************************)
FieldEntries == {[k |-> f, v |-> v] : f \in Fields, v \in {Yes, Zero, Undefined}}
FieldsCases ==
  {FieldsUndefined, FieldsList(<<>>), FieldsMap(<<>>)}
  \cup {FieldsList(<<f>>) : f \in Fields}
  \cup {FieldsList(<<x[1], x[2]>>) : x \in {y \in Fields \X Fields : y[1] # y[2]}}
  \cup {FieldsMap(<<e>>) : e \in FieldEntries}
  \cup {FieldsMap(<<x[1], x[2]>>) :
          x \in {y \in FieldEntries \X FieldEntries : y[1].k # y[2].k}}

InitFields ==
  /\ idName \in {"id", "_uri"}
  /\ allowExtendedOperators = FALSE
  /\ db = FALSE
  /\ store = [u \in Uris |-> Missing]
  /\ pc = "idle"
  /\ call = NoCall
  /\ data = EmptyObj
  /\ req = NoReq
  /\ nreq = 0
  /\ resp = NoResp
  /\ cb = NoCb
  /\ thrown = ""
  /\ prev = NoPrev
  /\ parsed = NoParsed
  /\ filter \in {[NoFilter EXCEPT !.fields = f] : f \in FieldsCases}
  /\ cursor = NoCursor
  /\ ret = <<>>
  /\ dataSource = NoEvents

\* idIncluded(fields, self.idName(model))
decide ==
  /\ pc = "idle"
  /\ ret' = idIncluded(filter.fields, idName)
  /\ pc' = "done"
  /\ UNCHANGED <<Settings, filter, cursor, dataSource, db, store, call, data,
                 req, nreq, resp, cb, thrown, prev, parsed>>

SpecFields == InitFields /\ [][decide]_vars

(***************************************************************************)
(* Properties.                                                             *)
(***************************************************************************)
\* what a where filter means to the caller: document u of collection s
\* satisfies it (a non-object filter is no filter)
Satisfies(s, u, where) ==
  where.tag = "obj" =>
    \A i \in 1..Len(where.e) :
       IF where.e[i].k = idName THEN where.e[i].v = u
       ELSE IF where.e[i].k = "name" THEN where.e[i].v = s[u].name
       ELSE FALSE

Satisfying(s, where) == {u \in Present(s) : Satisfies(s, u, where)}

NoData(a) == a.tag \in {"none", "undefined", "null"}

NotConnected == thrown = "MarkLogic connection is not established"

\* C1: every public operation that gets as far as the store issues exactly
\* one store request and invokes the caller's callback exactly once when
\* the store has completed it (never zero times, never twice); the only
\* call that issues none is one made without a connection.
C1_OneRequestOneCallback ==
  (pc # "idle" /\ ~NotConnected) =>
     /\ nreq = 1
     /\ pc \in {"pending", "cursor", "done"}
     /\ pc = "done" => cb.n = 1
     /\ pc \in {"pending", "cursor"} => cb.n = 0

\* C2: when the store completes the request of save, find, all, count,
\* destroy, destroyAll, updateAll, updateAttributes or updateOrCreate with
\* an error, the callback receives that very error and no data.
C2_StoreErrorPropagates ==
  (pc = "done" /\ resp.err # NoErr
     /\ call.op \in {"save", "find", "all", "count", "destroy", "destroyAll",
                     "updateAll", "updateAttributes", "updateOrCreate"}) =>
     /\ cb.n = 1
     /\ cb.err = resp.err
     /\ NoData(cb.data)
     /\ cb.info \in {"none", "empty"}

C2_Witness ==
  /\ pc = "done"
  /\ call.op = "updateAttributes"
  /\ resp.err \in StoreErrors
  /\ cb.n = 1

\* C3: updateOrCreate issues a findAndModify by the locator of the record's
\* identity field with upsert enabled, and on the store's success the
\* callback receives the resulting record, no error, and isNewInstance
\* false for an existing document and true for an inserted one.
C3_UpdateOrCreateUpserts ==
  (call.op = "updateOrCreate" /\ db) =>
     /\ pc \in {"pending", "done"}
     /\ req.command = "findAndModify"
     /\ req.query = ByUri(call.uri)
     /\ req.upsert
     /\ (pc = "done" /\ resp.err = NoErr) =>
          /\ cb.n = 1
          /\ cb.err = NoErr
          /\ cb.data.tag = "obj"
          /\ cb.info = IF resp.updatedExisting THEN "notnew" ELSE "new"

\* C4: updateAttributes(model, uri, data) leaves every document other than
\* the one at uri as it was and never creates a document; when the store
\* answers that no document has that locator, nothing is stored and the
\* callback receives the not-found message naming the model and the
\* locator, and no record.
C4_UpdateAttributesOneDoc ==
  [][ (pc = "pending" /\ call.op = "updateAttributes" /\ pc' = "done") =>
        /\ \A u \in Uris : u # call.uri => store'[u] = store[u]
        /\ Present(store') = Present(store)
        /\ (~store[call.uri].present /\ resp'.err = NoErr) =>
             /\ store' = store
             /\ cb'.n = 1
             /\ cb'.err = NotFoundMsg(Model, call.uri)
             /\ NoData(cb'.data) ]_vars

C4_Witness ==
  /\ pc = "done"
  /\ call.op = "updateAttributes"
  /\ resp.err = NoErr
  /\ ~store[call.uri].present
  /\ Present(store) # {}
  /\ cb.err = NotFoundMsg(Model, call.uri)

\* C5: updateAll sends one multi-document update without upsert whose
\* payload is the caller's payload less the identity field, sanitized; on
\* success the callback receives {count: n} with n the number of documents
\* the filter matched, and a filter that matches none gives {count: 0}, no
\* error and an unchanged collection.
C5_UpdateAll ==
  [][ (pc = "pending" /\ call.op = "updateAll" /\ pc' = "done"
         /\ resp'.err = NoErr) =>
        /\ nreq = 1
        /\ req.command = "update" /\ req.multi /\ ~req.upsert
        /\ req.update.wrap =>
             /\ req.update.payload[idName] = Absent
             /\ \A k \in Keys \ {idName} : req.update.payload[k] = call.data[k]
        /\ ~req.update.wrap => req.update.fwd[idName] = Absent
        /\ cb'.n = 1
        /\ cb'.err = NoErr
        /\ cb'.data = ACount(resp'.n)
        /\ cb'.data = ACount(Cardinality(Satisfying(store, call.where)))
        /\ Present(store') = Present(store)
        /\ Satisfying(store, call.where) = {} =>
             /\ cb'.data = ACount(0)
             /\ store' = store ]_vars

C5_Witness ==
  /\ pc = "done"
  /\ call.op = "updateAll"
  /\ resp.err = NoErr
  /\ call.where.tag = "obj"
  /\ Len(call.where.e) = 1
  /\ Present(store) # {}
  /\ cb.err = NoErr
  /\ cb.data = ACount(0)

\* C6: destroyAll removes exactly the documents its filter matches and
\* reports their number: a filter on the identity field alone removes that
\* one document ({count: 1}), the same call repeated right after it has
\* succeeded reports {count: 0} and no error, and any other filter, or
\* none, is a bulk delete.
C6_DestroyAll ==
  [][ (pc = "pending" /\ call.op = "destroyAll" /\ pc' = "done"
         /\ resp'.err = NoErr) =>
        LET M == Satisfying(store, call.where)
        IN /\ Present(store') = Present(store) \ M
           /\ \A u \in Present(store') : store'[u] = store[u]
           /\ cb'.n = 1
           /\ cb'.err = NoErr
           /\ cb'.data = ACount(Cardinality(M))
           /\ SinglesOut(call.where) =>
                /\ M \subseteq {call.where.e[1].v}
                /\ store[call.where.e[1].v].present => cb'.data = ACount(1)
                /\ (prev.op = "destroyAll" /\ prev.arg = call.where.e[1].v)
                     => cb'.data = ACount(0) ]_vars

C6_Witness ==
  /\ pc = "done"
  /\ call.op = "destroyAll"
  /\ SinglesOut(call.where)
  /\ prev.op = "destroyAll"
  /\ prev.arg = call.where.e[1].v
  /\ Present(store) # {}
  /\ cb.err = NoErr
  /\ cb.data = ACount(0)

\* C7: a find never changes the collection, and a find for a locator that
\* no document has completes with no error and a null record, on the first
\* call and on every repeated one.
C7_FindMiss ==
  [][ (pc = "pending" /\ call.op = "find" /\ pc' = "done") =>
        /\ store' = store
        /\ (~store[call.uri].present /\ resp'.err = NoErr) =>
             /\ cb'.n = 1
             /\ cb'.err = NoErr
             /\ cb'.data = ANull ]_vars

C7_Witness ==
  /\ pc = "done"
  /\ call.op = "find"
  /\ prev.op = "find"
  /\ prev.arg = call.uri
  /\ ~store[call.uri].present
  /\ cb.err = NoErr
  /\ cb.data = ANull

\* C8: after a successful create the locator of the acknowledgement is in
\* the record's identity field and is the callback's result, the record's
\* other fields are as the caller passed them (so no _uri key was added),
\* and the document is stored under that locator; after a store error the
\* record is as the caller passed it.
C8_Create ==
  (pc = "done" /\ call.op = "create") =>
     IF resp.err = NoErr
     THEN /\ resp.docUri \in Uris
          /\ store[resp.docUri].present
          /\ cb.n = 1
          /\ cb.err = NoErr
          /\ cb.data = AVal(resp.docUri)
          /\ data[idName] = resp.docUri
          /\ \A k \in Keys \ {idName} : data[k] = call.data[k]
     ELSE data = call.data

C8_Witness ==
  /\ pc = "done"
  /\ call.op = "create"
  /\ resp.err = NoErr
  /\ idName = "_uri"
  /\ call.data["id"] = Absent
  /\ call.data["name"] # Absent
  /\ data["_uri"] \in Uris

\* C9: after a successful save the record's identity field reads as it did
\* before the call, the record has no _uri key unless the identity field
\* is _uri, and its other fields are untouched; after a failed save the
\* record is as the caller passed it.
C9_Save ==
  (pc = "done" /\ call.op = "save") =>
     IF resp.err = NoErr
     THEN /\ Get(data, idName) = Get(call.data, idName)
          /\ idName # "_uri" => data["_uri"] = Absent
          /\ \A k \in Keys \ {idName, "_uri"} : data[k] = call.data[k]
     ELSE data = call.data

C9_Witness ==
  /\ pc = "done"
  /\ call.op = "save"
  /\ resp.err = NoErr
  /\ idName = "id"
  /\ call.data["id"] \in Uris
  /\ call.data["_uri"] \in Uris
  /\ data["_uri"] = Absent

\* C10: the keys of the sanitized payload are allow-listed operators; with
\* the flag disabled it is {$set: payload}; with the flag enabled it holds
\* exactly the payload's entries under allow-listed operator keys, and is
\* {$set: payload} only when the payload has no such key.
C10_ParseUpdateData ==
  pc = "done" =>
     /\ OwnKeys(parsed.fwd) \subseteq AcceptedSet
     /\ parsed.wrap => OwnKeys(parsed.fwd) = {}
     /\ ~allowExtendedOperators =>
          parsed = [wrap |-> TRUE, payload |-> data, fwd |-> EmptyObj]
     /\ allowExtendedOperators =>
          IF OwnKeys(data) \cap AcceptedSet = {}
          THEN parsed = [wrap |-> TRUE, payload |-> data, fwd |-> EmptyObj]
          ELSE parsed = [wrap |-> FALSE, payload |-> EmptyObj,
                         fwd |-> [k \in Keys |-> IF k \in AcceptedSet
                                                 THEN data[k] ELSE Absent]]

(***************************************************************************)
(* Properties of buildWhere.                                               *)
(***************************************************************************)
\* the key under which buildWhere files the entry of field k
NativeKey(k) == IF k = idName THEN "_uri" ELSE k

\* the entries of query q under key k
QAt(q, k) == SelectSeq(q, LAMBDA x : x.k = k)

\* the filter holds only field-to-literal equalities with non-null literals
\* (and, or and nor are combinators, not fields)
OnlyLiteralEqualities(w) ==
  /\ w.tag = "obj"
  /\ \A i \in 1..Len(w.e) :
       /\ w.e[i].kind = "lit"
       /\ w.e[i].v # Null
       /\ w.e[i].k \notin {"and", "or", "nor"}

\* C11: for a filter made only of field-to-literal equalities (non-null
\* literals) the native query has one entry per entry of the filter, under
\* the same key except that the identity field's key is _uri, with the
\* value unchanged.
C11_LiteralEqualities ==
  (pc = "done" /\ OnlyLiteralEqualities(filter.where)) =>
     /\ Len(ret) = Len(filter.where.e)
     /\ \A i \in 1..Len(filter.where.e) :
          ret[i] = QEntry(NativeKey(filter.where.e[i].k), "eq",
                          filter.where.e[i].v)

\* the entries of filter w that are a clause {between: [lo, hi]}
IsBetween(ent) ==
  /\ ent.kind = "obj"
  /\ Len(ent.c) = 1
  /\ ent.c[1].k = "between"
  /\ ent.c[1].val.tag = "arr"

\* the original statement of C12: a clause {between: [lo, hi]} on a field
\* gives {$gte: lo, $lte: hi} for that field, and translating the native
\* query again gives the same native query.
C12_BetweenIdempotent ==
  (pc \in {"done", "again"} /\ filter.where.tag = "obj") =>
     \A i \in 1..Len(filter.where.e) :
        IsBetween(filter.where.e[i]) =>
          QAt(ret, NativeKey(filter.where.e[i].k)) =
            <<QObj(NativeKey(filter.where.e[i].k),
                   <<CEntry("$gte", CLit(filter.where.e[i].c[1].val.a)),
                     CEntry("$lte", CLit(filter.where.e[i].c[1].val.b))>>)>>

\* C12: a clause {between: [lo, hi]} on a field gives {$gte: lo, $lte: hi}
\* for that field; translating the native query again is not a no-op: the
\* first tag of the native clause is taken for an operator and prefixed
\* once more, which gives {$$gte: lo} for that field.
C12_Between ==
  (pc \in {"done", "again"} /\ filter.where.tag = "obj") =>
     \A i \in 1..Len(filter.where.e) :
        IsBetween(filter.where.e[i]) =>
          QAt(ret, NativeKey(filter.where.e[i].k)) =
            IF pc = "done"
            THEN <<QObj(NativeKey(filter.where.e[i].k),
                        <<CEntry("$gte", CLit(filter.where.e[i].c[1].val.a)),
                          CEntry("$lte", CLit(filter.where.e[i].c[1].val.b))>>)>>
            ELSE <<QObj(NativeKey(filter.where.e[i].k),
                        <<CEntry("$$gte", CLit(filter.where.e[i].c[1].val.a))>>)>>

C12_Witness ==
  /\ pc = "again"
  /\ filter.where = WhereObj(<<WhereClause("name",
                         <<CEntry("between", CArr(Num(18), Num(30)))>>)>>)
  /\ ret = <<QObj("name", <<CEntry("$$gte", CLit(Num(18)))>>)>>

\* C13: a where that is not a structured mapping (null, undefined, a
\* number, a string, a boolean or a sequence) is translated to the empty
\* native query.
C13_NonMapping ==
  (pc = "done" /\ filter.where.tag # "obj") => ret = <<>>

\* the clause carries a like or nlike operand together with flags
HasPattern(ent, op) ==
  /\ ent.kind = "obj"
  /\ Len(ent.c) = 2
  /\ CHas(ent.c, op)
  /\ CHas(ent.c, "options")

\* C17: a clause carrying a like operand and pattern flags under options,
\* in either key order, gives {$regex: RegExp(operand, flags)} for the
\* field, and with nlike in place of like {$not: RegExp(operand, flags)}.
C17_PatternFlags ==
  (pc = "done" /\ filter.where.tag = "obj") =>
     \A i \in 1..Len(filter.where.e) :
        LET ent == filter.where.e[i]
        IN /\ HasPattern(ent, "like") =>
                QAt(ret, NativeKey(ent.k)) =
                  <<QObj(NativeKey(ent.k),
                         <<CEntry("$regex",
                                  CRegExp(CGet(ent.c, "like"),
                                          CGet(ent.c, "options").a))>>)>>
           /\ HasPattern(ent, "nlike") =>
                QAt(ret, NativeKey(ent.k)) =
                  <<QObj(NativeKey(ent.k),
                         <<CEntry("$not",
                                  CRegExp(CGet(ent.c, "nlike"),
                                          CGet(ent.c, "options").a))>>)>>

(***************************************************************************)
(* Properties of all.                                                      *)
(***************************************************************************)
\* the order the caller passed is the list or the string written from the
\* entries ps
OrderIs(o, ps) ==
  o = OrderList(OrderTexts(ps)) \/ o = OrderString(OrderJoin(ps))

\* the documents l are in the order of the first sort entry
OrderedBy(l, ent) ==
  \A i \in 1..Len(l) : \A j \in 1..Len(l) :
     i < j => IF ent.dir = 1
              THEN SortRank(l[i], ent.key) <= SortRank(l[j], ent.key)
              ELSE SortRank(l[i], ent.key) >= SortRank(l[j], ent.key)

\* the original statement of C14: with no order the cursor is sorted by
\* _uri ascending; otherwise entry by entry by the field (identity field
\* as _uri), descending exactly when the entry ends with DESC in any
\* letter case, and the suffix is never part of the sort key.
C14_OrderAnyCase ==
  [][ (pc = "pending" /\ call.op = "all" /\ pc' = "cursor") =>
        /\ ~OrderGiven(filter.order) =>
              cursor'.sort = <<SortEntry(Chars("_uri"), 1)>>
        /\ \A ps \in OrderPartLists :
              OrderIs(filter.order, ps) =>
                cursor'.sort =
                  [i \in 1..Len(ps) |->
                     SortEntry(Chars(NativeKey(ps[i].field)),
                               IF ps[i].suffix \in {DESC, desc}
                               THEN 0 - 1 ELSE 1)] ]_vars

\* C14: with no order the cursor is sorted by _uri ascending and the
\* records come back in that order; otherwise entry by entry: an entry
\* that ends with white space and upper-case DESC sorts its field
\* descending, one that ends with upper-case ASC or has no suffix sorts its
\* field ascending (identity field as _uri, the suffix not part of the
\* key), and a suffix in lower case is not recognised: the whole entry,
\* suffix included, is the sort key, ascending.
C14_Order ==
  [][ /\ (pc = "pending" /\ call.op = "all" /\ pc' = "cursor") =>
           /\ ~OrderGiven(filter.order) =>
                 cursor'.sort = <<SortEntry(Chars("_uri"), 1)>>
           /\ \A ps \in OrderPartLists :
                 OrderIs(filter.order, ps) =>
                   cursor'.sort =
                     [i \in 1..Len(ps) |->
                        IF ps[i].suffix \in {<<>>, ASC, DESC}
                        THEN SortEntry(Chars(NativeKey(ps[i].field)),
                                       IF ps[i].suffix = DESC THEN 0 - 1 ELSE 1)
                        ELSE SortEntry(OrderText(ps[i]), 1)]
      /\ (pc = "cursor" /\ pc' = "done" /\ resp'.err = NoErr) =>
           OrderedBy(resp'.list, cursor.sort[1]) ]_vars

C14_Witness ==
  /\ pc = "done"
  /\ call.op = "all"
  /\ cb.err = NoErr
  /\ filter.order = OrderList(<<Chars("name") \o Sp \o desc>>)
  /\ cursor.sort = <<SortEntry(Chars("name") \o Sp \o desc, 1)>>
  /\ Len(cb.data.list) = 2
  /\ resp.list[1]["name"] = Str(1)
  /\ resp.list[2]["name"] = Str(2)

\* the number of documents a cursor skips, and its limit (0: none)
Skipped(c) == IF c.skip = Undefined THEN 0 ELSE c.skip[2]
Limited(c) == IF c.limit = Undefined THEN 0 ELSE c.limit[2]
NumberOr0(v) == IF v = Undefined THEN 0 ELSE v[2]
\* how many of n documents come back after skipping k with limit l
PageLen(n, k, l) ==
  LET rest == IF n > k THEN n - k ELSE 0
  IN IF l = 0 \/ l > rest THEN rest ELSE l

\* C15: when the filter gives skip, the number of records skipped is the
\* value of skip whatever offset is; offset is used only when skip is not
\* given; limit is applied independently of both.
C15_SkipOverOffset ==
  (call.op = "all" /\ pc \in {"cursor", "done"} /\ cursor # NoCursor) =>
     /\ filter.skip # Undefined => Skipped(cursor) = filter.skip[2]
     /\ filter.skip = Undefined => Skipped(cursor) = NumberOr0(filter.offset)
     /\ Limited(cursor) = NumberOr0(filter.limit)
     /\ (pc = "done" /\ cb.err = NoErr) =>
          Len(cb.data.list) =
            PageLen(Cardinality(Matching(store, req.query)),
                    IF filter.skip # Undefined THEN filter.skip[2]
                    ELSE NumberOr0(filter.offset),
                    NumberOr0(filter.limit))

\* the projection includes the identity field: no projection, a list that
\* names it, a map that marks it truthy, or a map that marks only
\* exclusions and does not name it
IncludesId(fields) ==
  \/ fields.tag = "undefined"
  \/ fields.tag = "list" /\ \E i \in 1..Len(fields.e) : fields.e[i].k = idName
  \/ /\ fields.tag = "map"
     /\ \E i \in 1..Len(fields.e) :
          fields.e[i].k = idName /\ Truthy(fields.e[i].v)
  \/ /\ fields.tag = "map"
     /\ \A i \in 1..Len(fields.e) :
          fields.e[i].k # idName /\ ~Truthy(fields.e[i].v)

\* C18: every record all returns has the document's locator in its
\* identity field whenever the projection includes the identity field, and
\* has no _uri field unless the identity field is _uri.
C18_IdentityPopulated ==
  (call.op = "all" /\ pc = "done" /\ cb.err = NoErr) =>
     /\ Len(cb.data.list) = Len(resp.list)
     /\ \A i \in 1..Len(cb.data.list) :
          /\ IncludesId(filter.fields) =>
               cb.data.list[i][idName] = resp.list[i]["_uri"]
          /\ idName # "_uri" => cb.data.list[i]["_uri"] = Absent

(***************************************************************************)
(* Properties of idIncluded.                                               *)
(***************************************************************************)
\* the projection map or list names field k, and the value it gives it
Names(fields, k) == \E i \in 1..Len(fields.e) : fields.e[i].k = k
ValueOf(fields, k) ==
  fields.e[CHOOSE i \in 1..Len(fields.e) : fields.e[i].k = k].v

\* C19: idIncluded is true when no projection is supplied; for a list,
\* true exactly when the list contains the identity field; for a map that
\* lists the identity field, true exactly when its value is truthy; for a
\* map that does not list it, true exactly when the value of the map's
\* first key is falsy, and true for the empty map.
C19_IdIncluded ==
  pc = "done" =>
     /\ filter.fields.tag = "undefined" => ret = TRUE
     /\ filter.fields.tag = "list" => (ret = Names(filter.fields, idName))
     /\ (filter.fields.tag = "map" /\ Names(filter.fields, idName)) =>
          (ret = Truthy(ValueOf(filter.fields, idName)))
     /\ (filter.fields.tag = "map" /\ ~Names(filter.fields, idName)
           /\ filter.fields.e # <<>>) =>
          (ret = ~Truthy(filter.fields.e[1].v))
     /\ filter.fields = FieldsMap(<<>>) => ret = TRUE

C19_Witness ==
  /\ pc = "done"
  /\ idName = "id"
  /\ filter.fields = FieldsMap(<<[k |-> "name", v |-> Yes],
                                 [k |-> "_uri", v |-> Zero]>>)
  /\ ret = FALSE

\* the data source emitted event in this step
Emits(event) ==
  /\ Len(dataSource'.emitted) = Len(dataSource.emitted) + 1
  /\ dataSource'.emitted[Len(dataSource'.emitted)].event = event
LastError == dataSource'.emitted[Len(dataSource'.emitted)].err

\* C16: an operation invoked without a connection handle sends nothing; a
\* 'connected' notification makes the waiting operation run, an 'error'
\* notification invokes the waiting operation's callback with that error,
\* and the callback is never invoked more than once
C16_Deferred ==
  [][/\ (~db /\ pc = "idle" /\ pc' # "idle") => (pc' = "waiting" /\ nreq' = nreq)
     /\ (pc = "waiting" /\ Emits("connected")) =>
          (pc' = "pending" /\ nreq' = nreq + 1)
     /\ (pc = "waiting" /\ cb.n = 0 /\ Emits("error")) =>
          (cb'.n = 1 /\ cb'.err = LastError)
     /\ cb'.n <= 1]_vars

====
